---- MODULE Spec2Model ----
(***************************************************************************)
(* Commission lifecycle of the agent service: the Commission entity, the   *)
(* Agent aggregate, the Payout aggregate (internal/domain) and the admin   *)
(* HTTP handlers that work on the shared store (internal/handlers).        *)
(*                                                                         *)
(* Money is kept in minor units (cents) and rates in hundredths of a       *)
(* percentage point, so 5% is 500 and 100% is 10000; the input sets are    *)
(* chosen so that every product divides exactly. The createdAt and         *)
(* updatedAt stamps are left out: no method reads them. paidAt is kept,    *)
(* with time.Now() any value of Times.                                     *)
(*                                                                         *)
(* Nine parts, each with its own specification over the same variables:    *)
(*   SpecCommission       one Commission entity, with the Agent methods    *)
(*                        that change rate and tier                        *)
(*   SpecEvents           one Commission entity whose events are drained   *)
(*   SpecAgent            one Agent aggregate, all its methods             *)
(*   SpecPayout           one Payout aggregate                             *)
(*   SpecStore            the handlers over the tables, two requests at a  *)
(*                        time; SpecStoreSequential, one request at a time *)
(*   SpecService          CalculateCommission of the calculator service    *)
(*                        over the tables it reads                         *)
(*   SpecValue            the CommissionRate value object, the agent's     *)
(*                        effective rate and the dashboard and performance *)
(*                        reports, one call on bounded inputs              *)
(*   SpecLedger           the calculator service's commission records:     *)
(*                        create, approve, reject, mark paid, two callers  *)
(*   SpecCategory         the category commissions of an agent, replaced   *)
(*                        by the routed handler or through the repository  *)
(* A ...Call variable records the last method called on an entity and the  *)
(* error it returned (for a commission or payout, also the status it was   *)
(* called in).                                                             *)
(***************************************************************************)
EXTENDS Integers, Sequences, FiniteSets, TLC

VARIABLES commission, commissionCall, agent, agentCall, payout, payoutCall,
          agents, commissions, payouts, workers, nreq,
          db, calculation,
          valueCall,
          ledger, callers, ledgerCall,
          categoryCommissions, categoryRequest

commissionVars == <<commission, commissionCall>>
agentVars == <<agent, agentCall>>
payoutVars == <<payout, payoutCall>>
storeVars == <<agents, commissions, payouts, workers, nreq>>
serviceVars == <<db, calculation>>
valueVars == <<valueCall>>
ledgerVars == <<ledger, callers, ledgerCall>>
categoryVars == <<categoryCommissions, categoryRequest>>
domainVars == <<commissionVars, agentVars, payoutVars, serviceVars, valueVars,
               ledgerVars, categoryVars>>
vars == <<commissionVars, agentVars, payoutVars, storeVars, serviceVars, valueVars,
          ledgerVars, categoryVars>>

--------------------------------------------------------------------------
(* Bounds *)

MaxTime == 2
MaxEvents == 3
MaxItems == 3
MaxAgents == 1
MaxCommissions == 2
MaxPayouts == 2
MaxRequests == 6
MaxEarned == 5000
MaxLedgerRows == 2
MaxLedgerCalls == 4
MaxCategoryRequests == 2

Times == 1..MaxTime

(* a nil pointer / absent entity *)
Nil == [nil |-> TRUE]

NoCall == [op |-> "none"]

(* the goroutines serving requests *)
Workers == {"w1", "w2"}

Idle == [pc |-> "idle", op |-> "none"]

EmptyStore ==
    /\ agents = <<>>
    /\ commissions = <<>>
    /\ payouts = <<>>
    /\ workers = [w \in Workers |-> Idle]
    /\ nreq = 0

(* the goroutines inside a method of the calculator service *)
Callers == {"c1", "c2"}

(* no category commission stored, and no request for one *)
NoCategory ==
    /\ categoryCommissions = [rows |-> {}, requests |-> 0]
    /\ categoryRequest = Idle

(* no commission record of the calculator service, and no call on one *)
NoLedger ==
    /\ ledger = [commissions |-> <<>>, totalEarned |-> 0, calls |-> 0]
    /\ callers = [c \in Callers |-> Idle]
    /\ ledgerCall = NoCall

(* the tables the calculator service reads, all empty, no call made on it *)
(* and none on a value object or a report                                  *)
NoService ==
    /\ db = [agent |-> Nil, tiers |-> {}, teamBoost |-> 0,
             productRates |-> <<>>, categoryRates |-> <<>>]
    /\ calculation = NoCall
    /\ valueCall = NoCall
    /\ NoLedger
    /\ NoCategory

--------------------------------------------------------------------------
(* shared.CommissionRate *)

RateMax == 10000

NewCommissionRateErrBelowHundred(rate) ==
    IF rate < 0 \/ rate >= RateMax THEN "ErrInvalidCommissionRate" ELSE "nil"

NewCommissionRateErr(rate) ==
    IF rate < 0 \/ rate > RateMax THEN "ErrInvalidCommissionRate" ELSE "nil"

DefaultCommissionRate == 1000

RateCalculateCommission(value, amount) == (amount * value) \div 10000

AddPercentage(value, bonus) ==
    LET newValue == value + bonus
    IN  IF newValue > RateMax THEN RateMax ELSE newValue

--------------------------------------------------------------------------
(* shared.CommissionStatus *)

CommissionPending == "pending"
CommissionApproved == "approved"
CommissionPaid == "paid"
CommissionCancelled == "cancelled"

AllCommissionStatuses ==
    {CommissionPending, CommissionApproved, CommissionPaid, CommissionCancelled}

validCommissionTransitions(s) ==
    CASE s = CommissionPending -> {CommissionApproved, CommissionCancelled}
      [] s = CommissionApproved -> {CommissionPaid, CommissionCancelled}
      [] s = CommissionPaid -> {}
      [] s = CommissionCancelled -> {}
      [] OTHER -> {}

CommissionCanTransitionTo(s, target) == target \in validCommissionTransitions(s)

CommissionTransitionTo(s, target) ==
    IF ~CommissionCanTransitionTo(s, target)
    THEN [status |-> s, err |-> "ErrInvalidCommissionTransition"]
    ELSE [status |-> target, err |-> "nil"]

CommissionIsTerminalPaidOnly(s) == s = CommissionPaid

CommissionIsTerminal(s) == s = CommissionPaid \/ s = CommissionCancelled

--------------------------------------------------------------------------
(* shared.AgentTier *)

TierBronze == "bronze"
TierSilver == "silver"
TierGold == "gold"
TierPlatinum == "platinum"

AllAgentTiers == {TierBronze, TierSilver, TierGold, TierPlatinum}

BonusPercentagePlatinumAsGold(t) ==
    CASE t = TierPlatinum -> 200
      [] t = TierGold -> 200
      [] t = TierSilver -> 100
      [] t = TierBronze -> 0
      [] OTHER -> 0

(* bonus as a fraction of one, times 10000: 0.01 is 100 *)
BonusPercentage(t) ==
    CASE t = TierPlatinum -> 300
      [] t = TierGold -> 200
      [] t = TierSilver -> 100
      [] t = TierBronze -> 0
      [] OTHER -> 0

Level(t) ==
    CASE t = TierPlatinum -> 4
      [] t = TierGold -> 3
      [] t = TierSilver -> 2
      [] t = TierBronze -> 1
      [] OTHER -> 0

NextTierSkippingGold(t) ==
    CASE t = TierBronze -> TierSilver
      [] t = TierSilver -> TierPlatinum
      [] t = TierGold -> TierPlatinum
      [] OTHER -> t

NextTier(t) ==
    CASE t = TierBronze -> TierSilver
      [] t = TierSilver -> TierGold
      [] t = TierGold -> TierPlatinum
      [] OTHER -> t

TierIsValid(t) == t \in AllAgentTiers

--------------------------------------------------------------------------
(* commission.Commission *)

(* the parameters NewCommission accepts, and parameters with one field,    *)
(* or every field, out of range                                            *)
AcceptedCommissionParams ==
    [ID : {1}, AgentID : {1}, OrderID : {"ORD-1"}, OrderTotal : {100000},
     Rate : {0, 500, 10000}, Amount : {-500, 0, 6000}]

CommissionParamsSet ==
    LET p == [ID |-> 1, AgentID |-> 1, OrderID |-> "ORD-1", OrderTotal |-> 100000,
              Rate |-> 500, Amount |-> 0]
    IN  AcceptedCommissionParams \cup
        {[p EXCEPT !.AgentID = 0], [p EXCEPT !.OrderID = ""],
         [p EXCEPT !.OrderTotal = 0], [p EXCEPT !.OrderTotal = -100],
         [p EXCEPT !.Rate = -100], [p EXCEPT !.Rate = 10100],
         [p EXCEPT !.AgentID = 0, !.OrderID = "", !.OrderTotal = 0,
                   !.Rate = 10100]}

NewCommissionErrAnyTotal(params) ==
    IF params.AgentID = 0 THEN "agent ID is required"
    ELSE IF params.OrderID = "" THEN "order ID is required"
    ELSE NewCommissionRateErr(params.Rate)

NewCommissionErr(params) ==
    IF params.AgentID = 0 THEN "agent ID is required"
    ELSE IF params.OrderID = "" THEN "order ID is required"
    ELSE IF params.OrderTotal <= 0 THEN "order total must be positive"
    ELSE NewCommissionRateErr(params.Rate)

NewCommissionAmountAlwaysComputed(params) ==
    RateCalculateCommission(params.Rate, params.OrderTotal)

NewCommissionAmount(params) ==
    IF params.Amount <= 0
    THEN RateCalculateCommission(params.Rate, params.OrderTotal)
    ELSE params.Amount

CreatedEvent(params, amount) ==
    [type |-> "commission.created", commissionID |-> params.ID,
     agentID |-> params.AgentID, orderID |-> params.OrderID, amount |-> amount]

ApprovedEventOfOrderTotal(c) ==
    [type |-> "commission.approved", commissionID |-> c.id,
     agentID |-> c.agentID, amount |-> c.orderTotal]

ApprovedEvent(c) ==
    [type |-> "commission.approved", commissionID |-> c.id,
     agentID |-> c.agentID, amount |-> c.amount]

PaidEvent(c) ==
    [type |-> "commission.paid", commissionID |-> c.id,
     agentID |-> c.agentID, amount |-> c.amount]

NewCommission ==
    /\ commission = Nil
    /\ \E params \in CommissionParamsSet :
         LET err == NewCommissionErr(params)
             amount == NewCommissionAmount(params)
         IN  /\ commission' =
                  IF err # "nil" THEN Nil
                  ELSE [id |-> params.ID, agentID |-> params.AgentID,
                        orderID |-> params.OrderID,
                        orderTotal |-> params.OrderTotal,
                        rate |-> params.Rate, amount |-> amount,
                        status |-> CommissionPending,
                        events |-> <<CreatedEvent(params, amount)>>]
             /\ commissionCall' = [op |-> "NewCommission", from |-> "none",
                                   params |-> params, err |-> err]
    /\ UNCHANGED <<agentVars, payoutVars, storeVars, serviceVars, valueVars, ledgerVars, categoryVars>>

(* the commission after a successful Approve *)
ApproveRecomputed(c) ==
    [c EXCEPT !.status = CommissionApproved,
              !.amount = RateCalculateCommission(c.rate, c.orderTotal),
              !.events = Append(@, ApprovedEvent(c))]

Approved(c) ==
    [c EXCEPT !.status = CommissionApproved,
              !.events = Append(@, ApprovedEvent(c))]

Approve ==
    /\ commission # Nil
    /\ IF ~CommissionCanTransitionTo(commission.status, CommissionApproved)
       THEN /\ commissionCall' = [op |-> "Approve", from |-> commission.status,
                                  err |-> "ErrInvalidCommission"]
            /\ UNCHANGED commission
       ELSE /\ commission' = Approved(commission)
            /\ commissionCall' = [op |-> "Approve", from |-> commission.status,
                                  err |-> "nil"]
    /\ UNCHANGED <<agentVars, payoutVars, storeVars, serviceVars, valueVars, ledgerVars, categoryVars>>

MarkAsPaid ==
    /\ commission # Nil
    /\ IF ~CommissionCanTransitionTo(commission.status, CommissionPaid)
       THEN /\ commissionCall' = [op |-> "MarkAsPaid", from |-> commission.status,
                                  err |-> "ErrNotApproved"]
            /\ UNCHANGED commission
       ELSE /\ commission' =
                 [commission EXCEPT !.status = CommissionPaid,
                                    !.events = Append(@, PaidEvent(commission))]
            /\ commissionCall' = [op |-> "MarkAsPaid", from |-> commission.status,
                                  err |-> "nil"]
    /\ UNCHANGED <<agentVars, payoutVars, storeVars, serviceVars, valueVars, ledgerVars, categoryVars>>

CommissionCancel ==
    /\ commission # Nil
    /\ IF CommissionIsTerminal(commission.status)
       THEN /\ commissionCall' = [op |-> "Cancel", from |-> commission.status,
                                  err |-> "ErrAlreadyPaid"]
            /\ UNCHANGED commission
       ELSE /\ commission' = [commission EXCEPT !.status = CommissionCancelled]
            /\ commissionCall' = [op |-> "Cancel", from |-> commission.status,
                                  err |-> "nil"]
    /\ UNCHANGED <<agentVars, payoutVars, storeVars, serviceVars, valueVars, ledgerVars, categoryVars>>

EventsKept(c) == c

(* the commission after Events(): c.events = make([]Event, 0) *)
EventsCleared(c) == [c EXCEPT !.events = <<>>]

(* Events() returns the collected events and clears them *)
CommissionEvents ==
    /\ commission # Nil
    /\ commissionCall' = [op |-> "Events", from |-> commission.status,
                          out |-> commission.events, err |-> "nil"]
    /\ commission' = EventsCleared(commission)
    /\ UNCHANGED <<agentVars, payoutVars, storeVars, serviceVars, valueVars,
                   ledgerVars, categoryVars>>

--------------------------------------------------------------------------
(* agent.Agent *)

AgentStatusActive == "active"
AgentStatusInactive == "inactive"
AgentStatusSuspended == "suspended"
AgentStatusPending == "pending"

AllAgentStatuses ==
    {AgentStatusActive, AgentStatusInactive, AgentStatusSuspended, AgentStatusPending}

AgentParamsSet ==
    [ID : {1}, Name : {"", "Aminah"}, Email : {"", "a@example.com"},
     Phone : {""}, CommissionRate : {0, 500, 10100},
     Tier : {"", "gold", "diamond"}, Status : {"", "suspended"}, TeamID : {<<>>}]

NewAgentErr(params) ==
    IF params.Name = "" THEN "name is required"
    ELSE IF params.Email = "" THEN "email is required"
    ELSE "nil"

NewAgentRate(params) ==
    IF params.CommissionRate > 0 /\ NewCommissionRateErr(params.CommissionRate) = "nil"
    THEN params.CommissionRate
    ELSE DefaultCommissionRate

NewAgentTier(params) ==
    IF params.Tier # "" /\ TierIsValid(params.Tier) THEN params.Tier ELSE TierBronze

NewAgentStatus(params) ==
    IF params.Status # "" /\ params.Status \in AllAgentStatuses
    THEN params.Status
    ELSE AgentStatusActive

NewAgent ==
    /\ agent = Nil
    /\ \E params \in AgentParamsSet :
         /\ NewAgentErr(params) = "nil"
         /\ agent' = [id |-> params.ID, name |-> params.Name, email |-> params.Email,
                      phone |-> params.Phone,
                      commissionRate |-> NewAgentRate(params),
                      tier |-> NewAgentTier(params),
                      status |-> NewAgentStatus(params),
                      totalEarned |-> 0,
                      teamID |-> params.TeamID,
                      events |-> <<[type |-> "agent.created", agentID |-> params.ID]>>]
    /\ agentCall' = [op |-> "NewAgent", err |-> "nil"]
    /\ UNCHANGED <<commissionVars, payoutVars, storeVars, serviceVars, valueVars, ledgerVars, categoryVars>>

SetCommissionRate ==
    /\ agent # Nil
    /\ \E rate \in {-100, 500, 750, 10100} :
         IF NewCommissionRateErr(rate) # "nil"
         THEN /\ agentCall' = [op |-> "SetCommissionRate",
                               err |-> NewCommissionRateErr(rate)]
              /\ UNCHANGED agent
         ELSE /\ agent' = [agent EXCEPT !.commissionRate = rate]
              /\ agentCall' = [op |-> "SetCommissionRate", err |-> "nil"]
    /\ UNCHANGED <<commissionVars, payoutVars, storeVars, serviceVars, valueVars, ledgerVars, categoryVars>>

PromoteTier ==
    /\ agent # Nil
    /\ LET nextTier == NextTier(agent.tier)
       IN  IF nextTier = agent.tier
           THEN /\ agentCall' = [op |-> "PromoteTier",
                                 err |-> "already at highest tier"]
                /\ UNCHANGED agent
           ELSE /\ Len(agent.events) < MaxEvents
                /\ agent' = [agent EXCEPT
                               !.tier = nextTier,
                               !.events = Append(@, [type |-> "agent.promoted",
                                                     agentID |-> agent.id,
                                                     newTier |-> nextTier])]
                /\ agentCall' = [op |-> "PromoteTier", err |-> "nil"]
    /\ UNCHANGED <<commissionVars, payoutVars, storeVars, serviceVars, valueVars, ledgerVars, categoryVars>>

SetTier ==
    /\ agent # Nil
    /\ \E tierStr \in AllAgentTiers \cup {"diamond"} :
         IF ~TierIsValid(tierStr)
         THEN /\ agentCall' = [op |-> "SetTier", err |-> "ErrInvalidAgentTier"]
              /\ UNCHANGED agent
         ELSE /\ agent' = [agent EXCEPT !.tier = tierStr]
              /\ agentCall' = [op |-> "SetTier", err |-> "nil"]
    /\ UNCHANGED <<commissionVars, payoutVars, storeVars, serviceVars, valueVars, ledgerVars, categoryVars>>

(* AgentStatus.CanBeActivated *)
CanBeActivatedUnlessActive(s) == s # AgentStatusActive

CanBeActivated(s) == s = AgentStatusInactive \/ s = AgentStatusPending

(* AgentStatus.CanEarnCommission *)
CanEarnCommission(s) == s = AgentStatusActive

StatusChangedEvent(a, status) ==
    [type |-> "agent.status_changed", agentID |-> a.id, newStatus |-> status]

UpdateProfile ==
    /\ agent # Nil
    /\ \E p \in {[name |-> "", email |-> "", phone |-> ""],
                   [name |-> "Siti", email |-> "s@example.com", phone |-> "012"]} :
         agent' = [agent EXCEPT
                     !.name = IF p.name # "" THEN p.name ELSE @,
                     !.email = IF p.email # "" THEN p.email ELSE @,
                     !.phone = p.phone]
    /\ agentCall' = [op |-> "UpdateProfile", err |-> "nil"]
    /\ UNCHANGED <<commissionVars, payoutVars, storeVars, serviceVars, valueVars, ledgerVars, categoryVars>>

Activate ==
    /\ agent # Nil
    /\ IF ~CanBeActivated(agent.status)
       THEN /\ agentCall' = [op |-> "Activate", err |-> "ErrAgentInactive"]
            /\ UNCHANGED agent
       ELSE /\ Len(agent.events) < MaxEvents
            /\ agent' = [agent EXCEPT
                           !.status = AgentStatusActive,
                           !.events = Append(@, StatusChangedEvent(agent,
                                                   AgentStatusActive))]
            /\ agentCall' = [op |-> "Activate", err |-> "nil"]
    /\ UNCHANGED <<commissionVars, payoutVars, storeVars, serviceVars, valueVars, ledgerVars, categoryVars>>

Suspend ==
    /\ agent # Nil
    /\ IF agent.status = AgentStatusSuspended
       THEN UNCHANGED agent
       ELSE /\ Len(agent.events) < MaxEvents
            /\ agent' = [agent EXCEPT
                           !.status = AgentStatusSuspended,
                           !.events = Append(@, StatusChangedEvent(agent,
                                                   AgentStatusSuspended))]
    /\ agentCall' = [op |-> "Suspend", err |-> "nil"]
    /\ UNCHANGED <<commissionVars, payoutVars, storeVars, serviceVars, valueVars, ledgerVars, categoryVars>>

Deactivate ==
    /\ agent # Nil
    /\ Len(agent.events) < MaxEvents
    /\ agent' = [agent EXCEPT
                   !.status = AgentStatusInactive,
                   !.events = Append(@, StatusChangedEvent(agent,
                                           AgentStatusInactive))]
    /\ agentCall' = [op |-> "Deactivate", err |-> "nil"]
    /\ UNCHANGED <<commissionVars, payoutVars, storeVars, serviceVars, valueVars, ledgerVars, categoryVars>>

(* teamID, a *uint, is <<>> when nil and <<id>> otherwise *)
AssignToTeam ==
    /\ agent # Nil
    /\ \E teamID \in {7} : agent' = [agent EXCEPT !.teamID = <<teamID>>]
    /\ agentCall' = [op |-> "AssignToTeam", err |-> "nil"]
    /\ UNCHANGED <<commissionVars, payoutVars, storeVars, serviceVars, valueVars, ledgerVars, categoryVars>>

RemoveFromTeam ==
    /\ agent # Nil
    /\ agent' = [agent EXCEPT !.teamID = <<>>]
    /\ agentCall' = [op |-> "RemoveFromTeam", err |-> "nil"]
    /\ UNCHANGED <<commissionVars, payoutVars, storeVars, serviceVars, valueVars, ledgerVars, categoryVars>>

(* the amounts RecordEarnings is called with; the total is kept within      *)
(* MaxEarned of zero                                                        *)
EarningsAmounts == {-5000, 0, 5000}

RecordEarnings ==
    /\ agent # Nil
    /\ \E amount \in EarningsAmounts :
         /\ agent.totalEarned + amount <= MaxEarned
         /\ agent.totalEarned + amount >= -MaxEarned
         /\ agent' = [agent EXCEPT !.totalEarned = @ + amount]
    /\ agentCall' = [op |-> "RecordEarnings", err |-> "nil"]
    /\ UNCHANGED <<commissionVars, payoutVars, storeVars, serviceVars, valueVars, ledgerVars, categoryVars>>

InitAgent ==
    /\ commission = Nil
    /\ commissionCall = NoCall
    /\ agent = Nil
    /\ agentCall = NoCall
    /\ payout = Nil
    /\ payoutCall = NoCall
    /\ EmptyStore
    /\ NoService

NextAgent ==
    \/ NewAgent
    \/ UpdateProfile
    \/ SetCommissionRate
    \/ PromoteTier
    \/ SetTier
    \/ Activate
    \/ Suspend
    \/ Deactivate
    \/ AssignToTeam
    \/ RemoveFromTeam
    \/ RecordEarnings

SpecAgent == InitAgent /\ [][NextAgent]_vars

--------------------------------------------------------------------------
(* shared.PayoutStatus *)

PayoutPending == "pending"
PayoutProcessing == "processing"
PayoutCompleted == "completed"
PayoutFailed == "failed"
PayoutCancelled == "cancelled"

AllPayoutStatuses ==
    {PayoutPending, PayoutProcessing, PayoutCompleted, PayoutFailed, PayoutCancelled}

validPayoutTransitions(s) ==
    CASE s = PayoutPending -> {PayoutProcessing, PayoutCancelled}
      [] s = PayoutProcessing -> {PayoutCompleted, PayoutFailed}
      [] s = PayoutCompleted -> {}
      [] s = PayoutFailed -> {PayoutPending}
      [] s = PayoutCancelled -> {}
      [] OTHER -> {}

PayoutCanTransitionTo(s, target) == target \in validPayoutTransitions(s)

PayoutTransitionToMovingAnyway(s, target) ==
    IF ~PayoutCanTransitionTo(s, target)
    THEN [status |-> target, err |-> "ErrInvalidPayoutTransition"]
    ELSE [status |-> target, err |-> "nil"]

PayoutTransitionTo(s, target) ==
    IF ~PayoutCanTransitionTo(s, target)
    THEN [status |-> s, err |-> "ErrInvalidPayoutTransition"]
    ELSE [status |-> target, err |-> "nil"]

PayoutIsTerminal(s) == s = PayoutCompleted \/ s = PayoutCancelled

PayoutCanRetryUnlessTerminal(s) == ~PayoutIsTerminal(s)

PayoutCanRetry(s) == s = PayoutFailed

--------------------------------------------------------------------------
(* payout.PayoutItem and payout.Payout *)

NewPayoutItem(commissionID, orderID, amount) ==
    [commissionID |-> commissionID, orderID |-> orderID, amount |-> amount]

ItemPool ==
    {NewPayoutItem(1, "ORD-1", 5000), NewPayoutItem(2, "ORD-2", 7500),
     NewPayoutItem(3, "ORD-3", 2500)}

ItemLists == UNION {[1..n -> ItemPool] : n \in 0..MaxItems}

PayoutParamsSet ==
    [ID : {1}, AgentID : {0, 1}, Period : {"", "2024-01"}, Items : ItemLists]

NewPayoutErr(params) ==
    IF params.AgentID = 0 THEN "agent ID is required"
    ELSE IF params.Period = "" THEN "period is required"
    ELSE IF Len(params.Items) = 0 THEN "ErrNoCommissions"
    ELSE "nil"

(* the loop of NewPayout: amount += item.Amount() over the items in order *)
RECURSIVE TotalAmountFrom(_, _, _)
TotalAmountFrom(items, i, amount) ==
    IF i > Len(items) THEN amount
    ELSE TotalAmountFrom(items, i + 1, amount + items[i].amount)

TotalAmountSkippingFirst(items) == TotalAmountFrom(items, 2, 0)

TotalAmount(items) == TotalAmountFrom(items, 1, 0)

(* a nil *time.Time is <<>>, a set one is <<t>> *)
NilTime == <<>>

NewPayout ==
    /\ payout = Nil
    /\ \E params \in PayoutParamsSet :
         LET err == NewPayoutErr(params)
         IN  /\ payout' =
                  IF err # "nil" THEN Nil
                  ELSE [id |-> params.ID, agentID |-> params.AgentID,
                        amount |-> TotalAmount(params.Items),
                        period |-> params.Period, items |-> params.Items,
                        status |-> PayoutPending, paidAt |-> NilTime]
             /\ payoutCall' = [op |-> "NewPayout", from |-> "none",
                               params |-> params, err |-> err]
    /\ UNCHANGED <<commissionVars, agentVars, storeVars, serviceVars, valueVars, ledgerVars, categoryVars>>

Process ==
    /\ payout # Nil
    /\ IF ~PayoutCanTransitionTo(payout.status, PayoutProcessing)
       THEN /\ payoutCall' = [op |-> "Process", from |-> payout.status,
                              err |-> "ErrPayoutCompleted"]
            /\ UNCHANGED payout
       ELSE /\ payout' = [payout EXCEPT !.status = PayoutProcessing]
            /\ payoutCall' = [op |-> "Process", from |-> payout.status, err |-> "nil"]
    /\ UNCHANGED <<commissionVars, agentVars, storeVars, serviceVars, valueVars, ledgerVars, categoryVars>>

CompletedUnstamped(p, now) == [p EXCEPT !.status = PayoutCompleted]

Completed(p, now) == [p EXCEPT !.status = PayoutCompleted, !.paidAt = <<now>>]

Complete ==
    /\ payout # Nil
    /\ \E now \in Times :
         IF ~PayoutCanTransitionTo(payout.status, PayoutCompleted)
         THEN /\ payoutCall' = [op |-> "Complete", from |-> payout.status,
                                err |-> "ErrPayoutCompleted"]
              /\ UNCHANGED payout
         ELSE /\ payout' = Completed(payout, now)
              /\ payoutCall' = [op |-> "Complete", from |-> payout.status,
                                err |-> "nil"]
    /\ UNCHANGED <<commissionVars, agentVars, storeVars, serviceVars, valueVars, ledgerVars, categoryVars>>

Fail ==
    /\ payout # Nil
    /\ IF ~PayoutCanTransitionTo(payout.status, PayoutFailed)
       THEN /\ payoutCall' = [op |-> "Fail", from |-> payout.status,
                              err |-> "ErrPayoutCompleted"]
            /\ UNCHANGED payout
       ELSE /\ payout' = [payout EXCEPT !.status = PayoutFailed]
            /\ payoutCall' = [op |-> "Fail", from |-> payout.status, err |-> "nil"]
    /\ UNCHANGED <<commissionVars, agentVars, storeVars, serviceVars, valueVars, ledgerVars, categoryVars>>

Retry ==
    /\ payout # Nil
    /\ IF ~PayoutCanRetry(payout.status)
       THEN /\ payoutCall' = [op |-> "Retry", from |-> payout.status,
                              err |-> "ErrInvalidPayout"]
            /\ UNCHANGED payout
       ELSE /\ payout' = [payout EXCEPT !.status = PayoutPending]
            /\ payoutCall' = [op |-> "Retry", from |-> payout.status, err |-> "nil"]
    /\ UNCHANGED <<commissionVars, agentVars, storeVars, serviceVars, valueVars, ledgerVars, categoryVars>>

CancelledEmptied(p) ==
    [p EXCEPT !.status = PayoutCancelled, !.amount = 0, !.items = <<>>]

Cancelled(p) == [p EXCEPT !.status = PayoutCancelled]

PayoutCancel ==
    /\ payout # Nil
    /\ IF PayoutIsTerminal(payout.status)
       THEN /\ payoutCall' = [op |-> "Cancel", from |-> payout.status,
                              err |-> "ErrPayoutCompleted"]
            /\ UNCHANGED payout
       ELSE /\ payout' = Cancelled(payout)
            /\ payoutCall' = [op |-> "Cancel", from |-> payout.status, err |-> "nil"]
    /\ UNCHANGED <<commissionVars, agentVars, storeVars, serviceVars, valueVars, ledgerVars, categoryVars>>

InitPayout ==
    /\ commission = Nil
    /\ commissionCall = NoCall
    /\ agent = Nil
    /\ agentCall = NoCall
    /\ payout = Nil
    /\ payoutCall = NoCall
    /\ EmptyStore
    /\ NoService

NextPayout ==
    \/ NewPayout
    \/ Process
    \/ Complete
    \/ Fail
    \/ Retry
    \/ PayoutCancel

SpecPayout == InitPayout /\ [][NextPayout]_vars

--------------------------------------------------------------------------
(* The Commission entity and the Agent it belongs to *)

InitCommission ==
    /\ commission = Nil
    /\ commissionCall = NoCall
    /\ agent = Nil
    /\ agentCall = NoCall
    /\ payout = Nil
    /\ payoutCall = NoCall
    /\ EmptyStore
    /\ NoService

NextCommission ==
    \/ NewCommission
    \/ Approve
    \/ MarkAsPaid
    \/ CommissionCancel
    \/ NewAgent
    \/ SetCommissionRate
    \/ PromoteTier
    \/ SetTier

SpecCommission == InitCommission /\ [][NextCommission]_vars

(* one Commission entity whose caller drains the events *)
NextEvents ==
    \/ NewCommission
    \/ Approve
    \/ MarkAsPaid
    \/ CommissionCancel
    \/ CommissionEvents

SpecEvents == InitCommission /\ [][NextEvents]_vars

--------------------------------------------------------------------------
(* The store (tables agents, commissions, payouts) and the admin handlers   *)
(* of internal/handlers. A handler is a sequence of database calls; each    *)
(* call is one atomic step of the worker (goroutine) serving the request,   *)
(* and the steps of concurrent requests interleave. The database itself is  *)
(* taken to be available: a call fails only by finding no row.              *)

(* a worker is free to serve the next request *)
Free(w) == workers[w].pc \in {"idle", "done"} /\ nreq < MaxRequests

Done(op, id, resp) == [pc |-> "done", op |-> op, id |-> id, resp |-> resp]

InFlight(pc) == Cardinality({w \in Workers : workers[w].pc = pc})

(* models.Agent.BeforeCreate *)
BeforeCreateRate(rate) == IF rate = 0 THEN DefaultCommissionRate ELSE rate

CreateAgent(w) ==
    /\ Free(w)
    /\ Len(agents) < MaxAgents
    /\ \E rate \in {0, 500, 15000} :
         agents' = Append(agents, [ID |-> Len(agents) + 1,
                                   CommissionRate |-> BeforeCreateRate(rate),
                                   Status |-> "active", TotalEarned |-> 0])
    /\ workers' = [workers EXCEPT ![w] = Done("CreateAgent", Len(agents) + 1, 201)]
    /\ nreq' = nreq + 1
    /\ UNCHANGED <<commissions, payouts, domainVars>>

(* DeleteAgent: the row is read, then saved whole with status inactive *)
UpdateAgentRequests == [CommissionRate : {0, 15000}, Status : {"", "inactive"}]

UpdateAgent_First(w) ==
    /\ Free(w)
    /\ \E id \in 1..MaxAgents, req \in UpdateAgentRequests :
         IF id \notin DOMAIN agents
         THEN workers' = [workers EXCEPT ![w] = Done("UpdateAgent", id, 404)]
         ELSE workers' = [workers EXCEPT
                            ![w] = [pc |-> "UpdateAgent_Save", op |-> "UpdateAgent",
                                    id |-> id, req |-> req, agent |-> agents[id]]]
    /\ nreq' = nreq + 1
    /\ UNCHANGED <<agents, commissions, payouts, domainVars>>

(* lines 170-184: the fields given in the request replace those of the row *)
(* read, and the row is saved                                              *)
UpdateAgent_Save(w) ==
    /\ workers[w].pc = "UpdateAgent_Save"
    /\ LET req == workers[w].req
           a == workers[w].agent
           rated == IF req.CommissionRate > 0
                    THEN [a EXCEPT !.CommissionRate = req.CommissionRate] ELSE a
           saved == IF req.Status # "" THEN [rated EXCEPT !.Status = req.Status]
                    ELSE rated
       IN  agents' = [agents EXCEPT ![workers[w].id] = saved]
    /\ workers' = [workers EXCEPT ![w] = Done("UpdateAgent", workers[w].id, 200)]
    /\ UNCHANGED <<commissions, payouts, nreq, domainVars>>

DeleteAgent_First(w) ==
    /\ Free(w)
    /\ \E id \in 1..MaxAgents :
         IF id \notin DOMAIN agents
         THEN workers' = [workers EXCEPT ![w] = Done("DeleteAgent", id, 404)]
         ELSE workers' = [workers EXCEPT
                            ![w] = [pc |-> "DeleteAgent_Save", op |-> "DeleteAgent",
                                    id |-> id, agent |-> agents[id]]]
    /\ nreq' = nreq + 1
    /\ UNCHANGED <<agents, commissions, payouts, domainVars>>

DeleteAgent_Save(w) ==
    /\ workers[w].pc = "DeleteAgent_Save"
    /\ agents' = [agents EXCEPT
                    ![workers[w].id] =
                        [workers[w].agent EXCEPT !.Status = "inactive"]]
    /\ workers' = [workers EXCEPT ![w] = Done("DeleteAgent", workers[w].id, 200)]
    /\ UNCHANGED <<commissions, payouts, nreq, domainVars>>

(* models.CalculateCommission *)
CalculateCommission(orderTotal, rate) == (orderTotal * rate) \div 10000

CreateCommissionRequests ==
    [AgentID : 1..MaxAgents, OrderID : {"ORD-1"}, OrderTotal : {100000},
     Rate : {0, 750}]

CreateCommission_FirstAgent(w) ==
    /\ Free(w)
    /\ Len(commissions) + InFlight("CreateCommission_Create") < MaxCommissions
    /\ \E req \in CreateCommissionRequests :
         IF req.AgentID \notin DOMAIN agents
         THEN workers' = [workers EXCEPT
                            ![w] = Done("CreateCommission", req.AgentID, 404)]
         ELSE workers' = [workers EXCEPT
                            ![w] = [pc |-> "CreateCommission_Create",
                                    op |-> "CreateCommission", req |-> req,
                                    agent |-> agents[req.AgentID]]]
    /\ nreq' = nreq + 1
    /\ UNCHANGED <<agents, commissions, payouts, domainVars>>

CreateCommission_Create(w) ==
    /\ workers[w].pc = "CreateCommission_Create"
    /\ LET req == workers[w].req
           rate == IF req.Rate = 0 THEN workers[w].agent.CommissionRate ELSE req.Rate
           amount == CalculateCommission(req.OrderTotal, rate)
           id == Len(commissions) + 1
       IN  /\ commissions' =
                Append(commissions,
                       [ID |-> id, AgentID |-> req.AgentID, OrderID |-> req.OrderID,
                        OrderTotal |-> req.OrderTotal, Rate |-> rate,
                        Amount |-> amount, Status |-> "pending"])
           /\ workers' = [workers EXCEPT ![w] = Done("CreateCommission", id, 201)]
    /\ UNCHANGED <<agents, payouts, nreq, domainVars>>

ApproveCommission_First(w) ==
    /\ Free(w)
    /\ \E id \in 1..MaxCommissions :
         IF id \notin DOMAIN commissions
         THEN workers' = [workers EXCEPT
                            ![w] = Done("ApproveCommission", id, 404)]
         ELSE workers' = [workers EXCEPT
                            ![w] = [pc |-> "ApproveCommission_Save",
                                    op |-> "ApproveCommission", id |-> id,
                                    commission |-> commissions[id]]]
    /\ nreq' = nreq + 1
    /\ UNCHANGED <<agents, commissions, payouts, domainVars>>

(* lines 317-318: the row is saved as read, with the status overwritten *)
ApproveCommission_Save(w) ==
    /\ workers[w].pc = "ApproveCommission_Save"
    /\ LET c == workers[w].commission
           saved == [c EXCEPT !.Status = "approved"]
       IN  /\ commissions' = [commissions EXCEPT ![c.ID] = saved]
           /\ workers' = [workers EXCEPT
                            ![w] = [pc |-> "ApproveCommission_FirstAgent",
                                    op |-> "ApproveCommission", id |-> c.ID,
                                    read |-> c.Status, commission |-> saved]]
    /\ UNCHANGED <<agents, payouts, nreq, domainVars>>

ApproveCommission_FirstAgent(w) ==
    /\ workers[w].pc = "ApproveCommission_FirstAgent"
    /\ LET c == workers[w].commission
       IN  IF c.AgentID \notin DOMAIN agents
           THEN workers' = [workers EXCEPT
                              ![w] = [pc |-> "done", op |-> "ApproveCommission",
                                      id |-> c.ID, read |-> workers[w].read,
                                      resp |-> 200]]
           ELSE workers' = [workers EXCEPT
                              ![w] = [pc |-> "ApproveCommission_SaveAgent",
                                      op |-> "ApproveCommission", id |-> c.ID,
                                      read |-> workers[w].read, commission |-> c,
                                      agent |-> agents[c.AgentID]]]
    /\ UNCHANGED <<agents, commissions, payouts, nreq, domainVars>>

(* lines 327-328: the agent row is saved as read, with the amount added *)
ApproveCommission_SaveAgent(w) ==
    /\ workers[w].pc = "ApproveCommission_SaveAgent"
    /\ LET a == workers[w].agent
           c == workers[w].commission
       IN  /\ agents' = [agents EXCEPT
                           ![a.ID] = [a EXCEPT !.TotalEarned = @ + c.Amount]]
           /\ workers' = [workers EXCEPT
                            ![w] = [pc |-> "done", op |-> "ApproveCommission",
                                    id |-> c.ID, read |-> workers[w].read,
                                    resp |-> 200]]
    /\ UNCHANGED <<commissions, payouts, nreq, domainVars>>

CreatePayoutRequests == [AgentID : 1..MaxAgents, Period : {"2024-01"}]

(* Where("agent_id = ? AND status = ?", req.AgentID, "approved") *)
ApprovedCommissionIDs(agentID) ==
    {id \in DOMAIN commissions :
        commissions[id].AgentID = agentID /\ commissions[id].Status = "approved"}

(* the IDs of a result set, in primary-key order *)
RECURSIVE InOrder(_)
InOrder(ids) ==
    IF ids = {} THEN <<>>
    ELSE LET m == CHOOSE x \in ids : \A y \in ids : x <= y
         IN  <<m>> \o InOrder(ids \ {m})

RECURSIVE SumAmount(_, _)
SumAmount(ids, i) ==
    IF i > Len(ids) THEN 0 ELSE commissions[ids[i]].Amount + SumAmount(ids, i + 1)

CreatePayout_Find(w) ==
    /\ Free(w)
    /\ Len(payouts) + InFlight("CreatePayout_Create") < MaxPayouts
    /\ \E req \in CreatePayoutRequests :
         LET commissionIDs == InOrder(ApprovedCommissionIDs(req.AgentID))
         IN  IF Len(commissionIDs) = 0
             THEN workers' = [workers EXCEPT
                                ![w] = Done("CreatePayout", req.AgentID, 400)]
             ELSE workers' = [workers EXCEPT
                                ![w] = [pc |-> "CreatePayout_Create",
                                        op |-> "CreatePayout", req |-> req,
                                        commissionIDs |-> commissionIDs,
                                        totalAmount |-> SumAmount(commissionIDs, 1)]]
    /\ nreq' = nreq + 1
    /\ UNCHANGED <<agents, commissions, payouts, domainVars>>

CreatePayout_Create(w) ==
    /\ workers[w].pc = "CreatePayout_Create"
    /\ LET l == workers[w]
           id == Len(payouts) + 1
       IN  /\ payouts' =
                Append(payouts,
                       [ID |-> id, AgentID |-> l.req.AgentID,
                        Amount |-> l.totalAmount, Period |-> l.req.Period,
                        CommissionIDs |-> l.commissionIDs,
                        Status |-> "pending", PaidAt |-> NilTime])
           /\ workers' = [workers EXCEPT
                            ![w] = [pc |-> "CreatePayout_Update",
                                    op |-> "CreatePayout", id |-> id,
                                    commissionIDs |-> l.commissionIDs]]
    /\ UNCHANGED <<agents, commissions, nreq, domainVars>>

Range(seq) == {seq[i] : i \in DOMAIN seq}

(* Where("id IN ?", commissionIDs).Update("status", "paid") *)
CreatePayout_Update(w) ==
    /\ workers[w].pc = "CreatePayout_Update"
    /\ commissions' =
         [id \in DOMAIN commissions |->
            IF id \in Range(workers[w].commissionIDs)
            THEN [commissions[id] EXCEPT !.Status = "paid"]
            ELSE commissions[id]]
    /\ workers' = [workers EXCEPT ![w] = Done("CreatePayout", workers[w].id, 201)]
    /\ UNCHANGED <<agents, payouts, nreq, domainVars>>

MarkPayoutPaid_First(w) ==
    /\ Free(w)
    /\ \E id \in 1..MaxPayouts :
         IF id \notin DOMAIN payouts
         THEN workers' = [workers EXCEPT ![w] = Done("MarkPayoutPaid", id, 404)]
         ELSE workers' = [workers EXCEPT
                            ![w] = [pc |-> "MarkPayoutPaid_Save",
                                    op |-> "MarkPayoutPaid", id |-> id,
                                    payout |-> payouts[id]]]
    /\ nreq' = nreq + 1
    /\ UNCHANGED <<agents, commissions, payouts, domainVars>>

MarkPayoutPaid_Save(w) ==
    /\ workers[w].pc = "MarkPayoutPaid_Save"
    /\ \E now \in Times :
         LET p == workers[w].payout
         IN  payouts' = [payouts EXCEPT
                           ![p.ID] = [p EXCEPT !.Status = "paid", !.PaidAt = <<now>>]]
    /\ workers' = [workers EXCEPT ![w] = Done("MarkPayoutPaid", workers[w].id, 200)]
    /\ UNCHANGED <<agents, commissions, nreq, domainVars>>

Handle(w) ==
    \/ CreateAgent(w)
    \/ UpdateAgent_First(w)
    \/ UpdateAgent_Save(w)
    \/ DeleteAgent_First(w)
    \/ DeleteAgent_Save(w)
    \/ CreateCommission_FirstAgent(w)
    \/ CreateCommission_Create(w)
    \/ ApproveCommission_First(w)
    \/ ApproveCommission_Save(w)
    \/ ApproveCommission_FirstAgent(w)
    \/ ApproveCommission_SaveAgent(w)
    \/ CreatePayout_Find(w)
    \/ CreatePayout_Create(w)
    \/ CreatePayout_Update(w)
    \/ MarkPayoutPaid_First(w)
    \/ MarkPayoutPaid_Save(w)

InitStore ==
    /\ commission = Nil
    /\ commissionCall = NoCall
    /\ agent = Nil
    /\ agentCall = NoCall
    /\ payout = Nil
    /\ payoutCall = NoCall
    /\ EmptyStore
    /\ NoService

(* requests served concurrently *)
NextStore == \E w \in Workers : Handle(w)

SpecStore == InitStore /\ [][NextStore]_vars

(* requests served one after the other *)
NextStoreSequential == Handle("w1")

SpecStoreSequential == InitStore /\ [][NextStoreSequential]_vars

--------------------------------------------------------------------------
(* services.CommissionCalculatorService: CalculateCommission               *)
(*                                                                         *)
(* db holds what the service reads: the row of sales.agents (Nil when      *)
(* there is none), the agent's rows of sales.commission_tiers, the          *)
(* commission_boost of the agent's team (0 when the team has no row), and   *)
(* the rows of sales.product_commission_rates and                           *)
(* sales.category_commission_rates in the order the database returns them.  *)
(* A max_amount of 0 is a tier without upper limit.                         *)

CommissionTier(min, max, rate) ==
    [MinAmount |-> min, MaxAmount |-> max, Rate |-> rate]

(* the tiers of the documentation's example 2 *)
ExampleTiers ==
    {CommissionTier(0, 100000, 500), CommissionTier(100000, 500000, 750),
     CommissionTier(500000, 0, 1000)}

AgentRows ==
    [ID : {1}, BaseRate : {500}, TierEnabled : BOOLEAN, TeamID : {<<>>, <<7>>},
     IsActive : BOOLEAN, Tier : {TierBronze, TierGold}]

ProductRate(id, name, rate, active) ==
    [ProductID |-> id, ProductName |-> name, BonusRate |-> rate,
     IsActive |-> active]

CategoryRate(id, name, rate, active) ==
    [CategoryID |-> id, CategoryName |-> name, BonusRate |-> rate,
     IsActive |-> active]

ProductRateTables ==
    {<<>>,
     <<ProductRate("P1", "Premium Batik", 300, TRUE),
       ProductRate("P2", "Sarong", 200, FALSE)>>,
     <<ProductRate("P2", "Sarong", 200, TRUE),
       ProductRate("P1", "Premium Batik", 300, TRUE)>>}

CategoryRateTables ==
    {<<>>,
     <<CategoryRate("C1", "Silk Batik", 300, TRUE),
       CategoryRate("C2", "Cotton", 100, FALSE)>>}

CommissionCalculationRequests ==
    [OrderID : {"ORD-1"}, AgentID : {1, 2}, OrderTotal : {700000},
     OrderSubtotal : {100000, 150000, 350000, 600000},
     ShippingCost : {1000}, DiscountAmount : {0},
     ProductIDs : {<<>>, <<"P1">>, <<"P1", "P2", "P1">>, <<"P3">>},
     CategoryIDs : {<<>>, <<"C1", "C2">>}]

(* Order("min_amount ASC") *)
RECURSIVE TiersInOrder(_)
TiersInOrder(rows) ==
    IF rows = {} THEN <<>>
    ELSE LET first == CHOOSE t \in rows :
                          \A u \in rows : t.MinAmount <= u.MinAmount
         IN  <<first>> \o TiersInOrder(rows \ {first})

getAgentCommissionRateAnyAgent(agentID) ==
    IF db.agent = Nil \/ db.agent.ID # agentID
    THEN [err |-> "agent not found", config |-> Nil]
    ELSE [err |-> "nil",
          config |->
             [AgentID |-> db.agent.ID,
              BaseRate |-> IF db.agent.TeamID # <<>> /\ db.teamBoost > 0
                           THEN db.agent.BaseRate + db.teamBoost
                           ELSE db.agent.BaseRate,
              TierEnabled |-> db.agent.TierEnabled,
              TierRates |-> IF db.agent.TierEnabled
                            THEN TiersInOrder(db.tiers)
                            ELSE <<>>]]

getAgentCommissionRate(agentID) ==
    IF db.agent = Nil \/ db.agent.ID # agentID
    THEN [err |-> "agent not found", config |-> Nil]
    ELSE IF ~db.agent.IsActive
    THEN [err |-> "agent is not active", config |-> Nil]
    ELSE [err |-> "nil",
          config |->
             [AgentID |-> db.agent.ID,
              BaseRate |-> IF db.agent.TeamID # <<>> /\ db.teamBoost > 0
                           THEN db.agent.BaseRate + db.teamBoost
                           ELSE db.agent.BaseRate,
              TierEnabled |-> db.agent.TierEnabled,
              TierRates |-> IF db.agent.TierEnabled
                            THEN TiersInOrder(db.tiers)
                            ELSE <<>>]]

getTierForAmount(tiers, amount) ==
    LET matching == {i \in 1..Len(tiers) :
                        /\ amount >= tiers[i].MinAmount
                        /\ (tiers[i].MaxAmount = 0 \/ amount <= tiers[i].MaxAmount)}
    IN  IF matching = {} THEN Nil
        ELSE tiers[CHOOSE i \in matching : \A j \in matching : i <= j]

RECURSIVE SumBreakdown(_)
SumBreakdown(breakdown) ==
    IF breakdown = <<>> THEN 0
    ELSE Head(breakdown).Amount + SumBreakdown(Tail(breakdown))

calculateProductCommissionsAnyEntry(productIDs, orderSubtotal, baseRate) ==
    LET Selected(r) == r.ProductID \in Range(productIDs)
        productRates == SelectSeq(db.productRates, Selected)
        breakdown == [i \in 1..Len(productRates) |->
                        [ItemType |-> "product",
                         ItemID |-> productRates[i].ProductID,
                         ItemName |-> productRates[i].ProductName,
                         Amount |-> (orderSubtotal * productRates[i].BonusRate)
                                       \div 10000,
                         Rate |-> productRates[i].BonusRate]]
    IN  [bonus |-> SumBreakdown(breakdown), breakdown |-> breakdown]

calculateProductCommissions(productIDs, orderSubtotal, baseRate) ==
    LET Selected(r) == r.ProductID \in Range(productIDs) /\ r.IsActive
        productRates == SelectSeq(db.productRates, Selected)
        breakdown == [i \in 1..Len(productRates) |->
                        [ItemType |-> "product",
                         ItemID |-> productRates[i].ProductID,
                         ItemName |-> productRates[i].ProductName,
                         Amount |-> (orderSubtotal * productRates[i].BonusRate)
                                       \div 10000,
                         Rate |-> productRates[i].BonusRate]]
    IN  [bonus |-> SumBreakdown(breakdown), breakdown |-> breakdown]

calculateCategoryCommissions(categoryIDs, orderSubtotal, baseRate) ==
    LET Selected(r) == r.CategoryID \in Range(categoryIDs) /\ r.IsActive
        categoryRates == SelectSeq(db.categoryRates, Selected)
        breakdown == [i \in 1..Len(categoryRates) |->
                        [ItemType |-> "category",
                         ItemID |-> categoryRates[i].CategoryID,
                         ItemName |-> categoryRates[i].CategoryName,
                         Amount |-> (orderSubtotal * categoryRates[i].BonusRate)
                                       \div 10000,
                         Rate |-> categoryRates[i].BonusRate]]
    IN  [bonus |-> SumBreakdown(breakdown), breakdown |-> breakdown]

NoBonus == [bonus |-> 0, breakdown |-> <<>>]

BaseAmountOfOrderTotal(req) == req.OrderTotal

(* the commission base: the subtotal, excluding shipping *)
BaseAmount(req) == req.OrderSubtotal

(* the error and the result CalculateCommission returns for req *)
ServiceCalculateCommission(req) ==
    LET got == getAgentCommissionRate(req.AgentID)
    IN  IF got.err # "nil"
        THEN [err |-> "failed to get agent commission rate", result |-> Nil]
        ELSE
          LET config == got.config
              baseAmount == BaseAmount(req)
              tier == getTierForAmount(config.TierRates, baseAmount)
              rate == IF tier # Nil THEN tier.Rate ELSE config.BaseRate
              product == IF Len(req.ProductIDs) > 0
                         THEN calculateProductCommissions(
                                 req.ProductIDs, req.OrderSubtotal, config.BaseRate)
                         ELSE NoBonus
              category == IF Len(req.CategoryIDs) > 0
                          THEN calculateCategoryCommissions(
                                  req.CategoryIDs, req.OrderSubtotal, config.BaseRate)
                          ELSE NoBonus
          IN  [err |-> "nil",
               result |->
                 [OrderID |-> req.OrderID,
                  AgentID |-> req.AgentID,
                  CommissionRate |-> rate,
                  CommissionAmount |-> (baseAmount * rate) \div 10000
                                          + product.bonus + category.bonus,
                  BasedOnAmount |-> baseAmount,
                  TierApplied |-> tier,
                  ProductCommission |-> <<>>,
                  Breakdown |-> product.breakdown \o category.breakdown]]

(* one call in a behaviour: the outcome depends on db and req only *)
Calculate ==
    /\ calculation = NoCall
    /\ \E req \in CommissionCalculationRequests :
         LET out == ServiceCalculateCommission(req)
         IN  calculation' = [op |-> "CalculateCommission", req |-> req,
                             err |-> out.err, result |-> out.result]
    /\ UNCHANGED <<db, commissionVars, agentVars, payoutVars, storeVars, valueVars,
                 ledgerVars, categoryVars>>

InitService ==
    /\ commission = Nil
    /\ commissionCall = NoCall
    /\ agent = Nil
    /\ agentCall = NoCall
    /\ payout = Nil
    /\ payoutCall = NoCall
    /\ EmptyStore
    /\ db \in [agent : {Nil} \cup AgentRows,
               tiers : {{}, ExampleTiers, {CommissionTier(100000, 500000, 750)}},
               teamBoost : {-100, 0, 200},
               productRates : ProductRateTables,
               categoryRates : CategoryRateTables]
    /\ calculation = NoCall
    /\ valueCall = NoCall
    /\ NoLedger
    /\ NoCategory

NextService == Calculate

SpecService == InitService /\ [][NextService]_vars

--------------------------------------------------------------------------
(* Value objects and reports: each action applies one function to inputs   *)
(* drawn from the sets below and records the call in valueCall; the        *)
(* functions keep no state, so a behaviour is one call.                    *)

(* rates fed to NewCommissionRate: both ends of [0, 100], their neighbours *)
(* on either side, and values well inside and well outside                 *)
RateInputs == {-100, -1, 0, 1, 500, 9900, 9999, 10000, 10001, 10100}

(* the values a CommissionRate built by NewCommissionRate can hold *)
ValidRates == {r \in RateInputs : NewCommissionRateErr(r) = "nil"}

(* bonus fractions times 10000: the four tier bonuses, larger and negative *)
BonusFractions == {-20000, -100, 0, 100, 200, 300, 5000, 10000, 20000}

NewCommissionRate(rate) ==
    IF NewCommissionRateErr(rate) # "nil"
    THEN [value |-> 0, err |-> NewCommissionRateErr(rate)]
    ELSE [value |-> rate, err |-> "nil"]

Value(r) == r.value

AddUncapped(value, other) == value + other

Add(value, other) ==
    LET newValue == value + other
    IN  IF newValue > RateMax THEN RateMax ELSE newValue

EffectiveCommissionRate(a) == AddPercentage(a.commissionRate, BonusPercentage(a.tier))

CallNewCommissionRate ==
    /\ valueCall = NoCall
    /\ \E rate \in RateInputs :
         LET r == NewCommissionRate(rate)
         IN  valueCall' = [op |-> "NewCommissionRate", in |-> <<rate>>,
                           out |-> Value(r), err |-> r.err]
    /\ UNCHANGED <<commissionVars, agentVars, payoutVars, storeVars, serviceVars, ledgerVars, categoryVars>>

CallAdd ==
    /\ valueCall = NoCall
    /\ \E a \in ValidRates, b \in ValidRates :
         valueCall' = [op |-> "Add", in |-> <<a, b>>, out |-> Add(a, b),
                       err |-> "nil"]
    /\ UNCHANGED <<commissionVars, agentVars, payoutVars, storeVars, serviceVars, ledgerVars, categoryVars>>

CallAddPercentage ==
    /\ valueCall = NoCall
    /\ \E a \in ValidRates, bonus \in BonusFractions :
         valueCall' = [op |-> "AddPercentage", in |-> <<a, bonus>>,
                       out |-> AddPercentage(a, bonus), err |-> "nil"]
    /\ UNCHANGED <<commissionVars, agentVars, payoutVars, storeVars, serviceVars, ledgerVars, categoryVars>>

CallEffectiveCommissionRate ==
    /\ valueCall = NoCall
    /\ \E base \in ValidRates, tier \in AllAgentTiers :
         valueCall' = [op |-> "EffectiveCommissionRate", in |-> <<base>>,
                       tier |-> tier,
                       out |-> EffectiveCommissionRate(
                                   [commissionRate |-> base, tier |-> tier]),
                       err |-> "nil"]
    /\ UNCHANGED <<commissionVars, agentVars, payoutVars, storeVars, serviceVars, ledgerVars, categoryVars>>

(* --- time.Time, as far as the reports use it: year, month, day --- *)

Date(y, m, d) == [year |-> y, month |-> m, day |-> d]

IsLeap(y) == (y % 4 = 0 /\ y % 100 # 0) \/ y % 400 = 0

DaysIn(y, m) ==
    IF m = 2 THEN (IF IsLeap(y) THEN 29 ELSE 28)
    ELSE IF m \in {4, 6, 9, 11} THEN 30
    ELSE 31

(* time.Date normalises a month outside 1..12 into the year and a day      *)
(* past the end of the month into the following month                      *)
TimeDate(y, m, d) ==
    LET yy == y + ((m - 1) \div 12)
        mm == ((m - 1) % 12) + 1
    IN  IF d <= DaysIn(yy, mm) THEN Date(yy, mm, d)
        ELSE IF mm = 12 THEN Date(yy + 1, 1, d - DaysIn(yy, mm))
        ELSE Date(yy, mm + 1, d - DaysIn(yy, mm))

AddDate(t, years, months, days) ==
    TimeDate(t.year + years, t.month + months, t.day + days)

DateKey(t) == t.year * 10000 + t.month * 100 + t.day

Before(t, u) == DateKey(t) < DateKey(u)

(* the days time.Now() is drawn from: every month of a leap year and of    *)
(* the year after it, on the first, a middle and each of the last days     *)
Today ==
    {t \in {Date(y, m, d) : y \in {2024, 2025}, m \in 1..12,
                            d \in {1, 15, 28, 29, 30, 31}} :
       t.day <= DaysIn(t.year, t.month)}

RECURSIVE Sum(_)
Sum(s) == IF s = <<>> THEN 0 ELSE Head(s) + Sum(Tail(s))

(* rows of the orders table of one agent, and of its commissions *)
Order(created, total) == [created_at |-> created, total |-> total]

CommissionRow(created, status, orderTotal, amount) ==
    [created_at |-> created, status |-> status, order_total |-> orderTotal,
     commission_amount |-> amount]

OrderTables ==
    {<<>>,
     <<Order(Date(2025, 3, 1), 10000)>>,
     <<Order(Date(2024, 2, 29), 10000), Order(Date(2025, 2, 10), 20001),
       Order(Date(2025, 2, 28), 5000)>>}

CommissionTables ==
    {<<>>,
     <<CommissionRow(Date(2025, 2, 10), "pending", 20001, 1000),
       CommissionRow(Date(2025, 2, 28), "paid", 5000, 250),
       CommissionRow(Date(2025, 3, 1), "approved", 10000, 500)>>}

TotalOf(orders) == Sum([k \in 1..Len(orders) |-> orders[k].total])

AmountOf(rows) == Sum([k \in 1..Len(rows) |-> rows[k].commission_amount])

OrderTotalOf(rows) == Sum([k \in 1..Len(rows) |-> rows[k].order_total])

(* WHERE created_at >= from AND created_at < to *)
Within(rows, from, to) ==
    LET In(r) == ~Before(r.created_at, from) /\ Before(r.created_at, to)
    IN  SelectSeq(rows, In)

(* WHERE created_at >= from *)
Since(rows, from) ==
    LET In(r) == ~Before(r.created_at, from)
    IN  SelectSeq(rows, In)

WithStatus(rows, status) ==
    LET In(r) == r.status = status
    IN  SelectSeq(rows, In)

AverageUnlessSingle(total, count) ==
    IF count > 1 THEN total \div count ELSE 0

(* the guarded division of the dashboard and of the monthly performance *)
Average(total, count) ==
    IF count > 0 THEN total \div count ELSE 0

(* one pass of the loop of GetAgentPerformance, i months back *)
Performance(now, i, authUserID, orders, rows) ==
    LET back == AddDate(now, 0, -i, 0)
        monthStart == TimeDate(back.year, back.month, 1)
        monthEnd == AddDate(monthStart, 0, 1, 0)
        mine == IF authUserID # "" THEN Within(orders, monthStart, monthEnd) ELSE <<>>
        earned == Within(rows, monthStart, monthEnd)
    IN  [Month |-> monthStart,
         TotalOrders |-> Len(mine),
         TotalSales |-> TotalOf(mine),
         TotalCommission |-> AmountOf(earned),
         CommissionPending |-> AmountOf(WithStatus(earned, "pending")),
         CommissionApproved |-> AmountOf(WithStatus(earned, "approved")),
         CommissionPaid |-> AmountOf(WithStatus(earned, "paid"))]

GetAgentPerformance ==
    /\ valueCall = NoCall
    /\ \E now \in Today, authUserID \in {"", "u-1"},
          orders \in OrderTables, rows \in CommissionTables :
         valueCall' = [op |-> "GetAgentPerformance", now |-> now,
                       authUserID |-> authUserID, orders |-> orders, rows |-> rows,
                       out |-> [k \in 1..12 |->
                                  Performance(now, 12 - k, authUserID, orders, rows)],
                       err |-> "nil"]
    /\ UNCHANGED <<commissionVars, agentVars, payoutVars, storeVars, serviceVars, ledgerVars, categoryVars>>

GetAgentDashboard ==
    /\ valueCall = NoCall
    /\ \E now \in {Date(2025, 2, 28), Date(2025, 3, 31)}, authUserID \in {"", "u-1"},
          orders \in OrderTables, rows \in CommissionTables, customers \in {0, 3} :
         LET monthStart == TimeDate(now.year, now.month, 1)
             mine == IF authUserID # "" THEN orders ELSE <<>>
             totalOrders == Len(mine)
             totalSales == TotalOf(mine)
         IN  valueCall' =
               [op |-> "GetAgentDashboard", now |-> now,
                authUserID |-> authUserID, orders |-> orders, rows |-> rows,
                out |-> [TotalOrders |-> totalOrders,
                         TotalSales |-> totalSales,
                         MonthlyOrders |-> Len(Since(mine, monthStart)),
                         MonthlySales |-> TotalOf(Since(mine, monthStart)),
                         TotalCustomers |-> customers,
                         TotalCommission |-> AmountOf(rows),
                         PendingCommission |-> AmountOf(WithStatus(rows, "pending")),
                         ApprovedCommission |-> AmountOf(WithStatus(rows, "approved")),
                         PaidCommission |-> AmountOf(WithStatus(rows, "paid")),
                         MonthlyCommission |-> AmountOf(Since(rows, monthStart)),
                         AverageOrderValue |-> Average(totalSales, totalOrders)],
                err |-> "nil"]
    /\ UNCHANGED <<commissionVars, agentVars, payoutVars, storeVars, serviceVars, ledgerVars, categoryVars>>

CalculateMonthlyPerformance ==
    /\ valueCall = NoCall
    /\ \E year \in {2024, 2025}, month \in {1, 2, 3, 12, 13}, rows \in CommissionTables :
         LET startDate == TimeDate(year, month, 1)
             endDate == AddDate(startDate, 0, 1, 0)
             summary == Within(rows, startDate, endDate)
         IN  valueCall' =
               [op |-> "CalculateMonthlyPerformance", rows |-> rows,
                out |-> [Year |-> year, Month |-> month,
                         TotalCommission |-> AmountOf(summary),
                         TotalOrders |-> Len(summary),
                         TotalSales |-> OrderTotalOf(summary),
                         AverageOrderValue |->
                             Average(OrderTotalOf(summary), Len(summary)),
                         AverageCommission |->
                             Average(AmountOf(summary), Len(summary))],
                err |-> "nil"]
    /\ UNCHANGED <<commissionVars, agentVars, payoutVars, storeVars, serviceVars, ledgerVars, categoryVars>>

(* status values handed to TransitionTo: the enumeration, the empty string  *)
(* and a value outside the enumeration                                      *)
CommissionStatusInputs == AllCommissionStatuses \cup {"", "refunded"}

PayoutStatusInputs == AllPayoutStatuses \cup {"", "refunded"}

CallCommissionTransitionTo ==
    /\ valueCall = NoCall
    /\ \E s \in CommissionStatusInputs, target \in CommissionStatusInputs :
         LET r == CommissionTransitionTo(s, target)
         IN  valueCall' = [op |-> "CommissionStatus.TransitionTo",
                           in |-> <<s, target>>,
                           can |-> CommissionCanTransitionTo(s, target),
                           out |-> r.status, err |-> r.err]
    /\ UNCHANGED <<commissionVars, agentVars, payoutVars, storeVars, serviceVars,
                   ledgerVars, categoryVars>>

CallPayoutTransitionTo ==
    /\ valueCall = NoCall
    /\ \E s \in PayoutStatusInputs, target \in PayoutStatusInputs :
         LET r == PayoutTransitionTo(s, target)
         IN  valueCall' = [op |-> "PayoutStatus.TransitionTo",
                           in |-> <<s, target>>,
                           can |-> PayoutCanTransitionTo(s, target),
                           out |-> r.status, err |-> r.err]
    /\ UNCHANGED <<commissionVars, agentVars, payoutVars, storeVars, serviceVars,
                   ledgerVars, categoryVars>>

(* commission.Calculator *)
CalculationParamsSet ==
    [OrderTotal : {0, 100000}, BaseRate : ValidRates, AgentTier : AllAgentTiers]

CalculatorCalculate(params) ==
    LET baseAmount == RateCalculateCommission(params.BaseRate, params.OrderTotal)
        tierBonusRate == BonusPercentage(params.AgentTier)
        tierBonus == (params.OrderTotal * tierBonusRate) \div 10000
        totalAmount == baseAmount + tierBonus
        effectiveRate == IF params.OrderTotal > 0
                         THEN (totalAmount * 10000) \div params.OrderTotal
                         ELSE 0
    IN  [BaseAmount |-> baseAmount, TierBonus |-> tierBonus,
         TotalAmount |-> totalAmount, EffectiveRate |-> effectiveRate]

EffectiveRate(baseRate, tier) == AddPercentage(baseRate, BonusPercentage(tier))

CallCalculate ==
    /\ valueCall = NoCall
    /\ \E params \in CalculationParamsSet :
         valueCall' = [op |-> "Calculator.Calculate", params |-> params,
                       out |-> CalculatorCalculate(params),
                       effective |-> EffectiveRate(params.BaseRate, params.AgentTier),
                       err |-> "nil"]
    /\ UNCHANGED <<commissionVars, agentVars, payoutVars, storeVars, serviceVars,
                   ledgerVars, categoryVars>>

InitValue ==
    /\ commission = Nil
    /\ commissionCall = NoCall
    /\ agent = Nil
    /\ agentCall = NoCall
    /\ payout = Nil
    /\ payoutCall = NoCall
    /\ EmptyStore
    /\ NoService

NextValue ==
    \/ CallNewCommissionRate
    \/ CallAdd
    \/ CallAddPercentage
    \/ CallEffectiveCommissionRate
    \/ GetAgentPerformance
    \/ GetAgentDashboard
    \/ CalculateMonthlyPerformance
    \/ CallCommissionTransitionTo
    \/ CallPayoutTransitionTo
    \/ CallCalculate

SpecValue == InitValue /\ [][NextValue]_vars

--------------------------------------------------------------------------
(* services.CommissionCalculatorService: the commission records            *)
(*                                                                         *)
(* ledger holds the rows of sales.agent_commissions (a row's id is its     *)
(* position), total_earned of the agent's row in sales.agents, and the     *)
(* number of calls started. Each caller is a goroutine inside one service  *)
(* method; a step is one statement sent to the database. ledgerCall is the *)
(* last call that returned: the method, the commission id, the status the  *)
(* row had when the method's Updates statement ran ("absent" without a     *)
(* row) and the error returned.                                            *)

ServiceStatusPending == "pending"
ServiceStatusApproved == "approved"
ServiceStatusPaid == "paid"
ServiceStatusRejected == "rejected"

StatusOf(id) ==
    IF id \in 1..Len(ledger.commissions) THEN ledger.commissions[id].Status
    ELSE "absent"

(* Table(...).Where("id = ? AND status = ?", id, from).Updates(status: to): *)
(* the rows after the statement; no row matching is not an error           *)
UpdatesAnyStatus(id, from, to) ==
    IF id \in 1..Len(ledger.commissions)
    THEN [ledger.commissions EXCEPT ![id].Status = to]
    ELSE ledger.commissions

Updates(id, from, to) ==
    IF StatusOf(id) = from
    THEN [ledger.commissions EXCEPT ![id].Status = to]
    ELSE ledger.commissions

Started(c) ==
    /\ callers[c] = Idle
    /\ ledger.calls < MaxLedgerCalls

ServiceCreateCommission(c) ==
    /\ Started(c)
    /\ Len(ledger.commissions) < MaxLedgerRows
    /\ LET id == Len(ledger.commissions) + 1
       IN  /\ ledger' = [ledger EXCEPT
                           !.commissions =
                               Append(@, [AgentID |-> 1,
                                          CommissionAmount |-> 2500 * (id + 1),
                                          Status |-> ServiceStatusPending]),
                           !.calls = @ + 1]
           /\ ledgerCall' = [op |-> "CreateCommission", id |-> id,
                             before |-> "absent", err |-> "nil"]
    /\ UNCHANGED <<callers, commissionVars, agentVars, payoutVars, storeVars,
                   serviceVars, valueVars, categoryVars>>

ServiceApproveCommission_Updates(c) ==
    /\ Started(c)
    /\ \E id \in 1..MaxLedgerRows :
         /\ ledger' = [ledger EXCEPT
                         !.commissions =
                             Updates(id, ServiceStatusPending, ServiceStatusApproved),
                         !.calls = @ + 1]
         /\ callers' = [callers EXCEPT
                          ![c] = [pc |-> "approve_first", op |-> "ApproveCommission",
                                  id |-> id, before |-> StatusOf(id)]]
    /\ UNCHANGED <<ledgerCall, commissionVars, agentVars, payoutVars, storeVars,
                   serviceVars, valueVars, categoryVars>>

ServiceApproveCommission_First(c) ==
    /\ callers[c].pc = "approve_first"
    /\ LET id == callers[c].id
       IN  IF id \in 1..Len(ledger.commissions)
           THEN /\ callers' = [callers EXCEPT
                                 ![c] = [pc |-> "approve_update",
                                         op |-> "ApproveCommission", id |-> id,
                                         before |-> callers[c].before,
                                         commission |-> ledger.commissions[id]]]
                /\ UNCHANGED ledgerCall
           ELSE /\ callers' = [callers EXCEPT ![c] = Idle]
                /\ ledgerCall' = [op |-> "ApproveCommission", id |-> id,
                                  before |-> callers[c].before, err |-> "nil"]
    /\ UNCHANGED <<ledger, commissionVars, agentVars, payoutVars, storeVars,
                   serviceVars, valueVars, categoryVars>>

ServiceApproveCommission_Update(c) ==
    /\ callers[c].pc = "approve_update"
    /\ ledger' = [ledger EXCEPT
                    !.totalEarned = @ + callers[c].commission.CommissionAmount]
    /\ callers' = [callers EXCEPT ![c] = Idle]
    /\ ledgerCall' = [op |-> "ApproveCommission", id |-> callers[c].id,
                      before |-> callers[c].before, err |-> "nil"]
    /\ UNCHANGED <<commissionVars, agentVars, payoutVars, storeVars,
                   serviceVars, valueVars, categoryVars>>

ServiceRejectCommission(c) ==
    /\ Started(c)
    /\ \E id \in 1..MaxLedgerRows :
         /\ ledger' = [ledger EXCEPT
                         !.commissions =
                             Updates(id, ServiceStatusPending, ServiceStatusRejected),
                         !.calls = @ + 1]
         /\ ledgerCall' = [op |-> "RejectCommission", id |-> id,
                           before |-> StatusOf(id), err |-> "nil"]
    /\ UNCHANGED <<callers, commissionVars, agentVars, payoutVars, storeVars,
                   serviceVars, valueVars, categoryVars>>

ServiceMarkCommissionPaid(c) ==
    /\ Started(c)
    /\ \E id \in 1..MaxLedgerRows :
         /\ ledger' = [ledger EXCEPT
                         !.commissions =
                             Updates(id, ServiceStatusApproved, ServiceStatusPaid),
                         !.calls = @ + 1]
         /\ ledgerCall' = [op |-> "MarkCommissionPaid", id |-> id,
                           before |-> StatusOf(id), err |-> "nil"]
    /\ UNCHANGED <<callers, commissionVars, agentVars, payoutVars, storeVars,
                   serviceVars, valueVars, categoryVars>>

Serve(c) ==
    \/ ServiceCreateCommission(c)
    \/ ServiceApproveCommission_Updates(c)
    \/ ServiceApproveCommission_First(c)
    \/ ServiceApproveCommission_Update(c)
    \/ ServiceRejectCommission(c)
    \/ ServiceMarkCommissionPaid(c)

InitLedger ==
    /\ commission = Nil
    /\ commissionCall = NoCall
    /\ agent = Nil
    /\ agentCall = NoCall
    /\ payout = Nil
    /\ payoutCall = NoCall
    /\ EmptyStore
    /\ NoService

NextLedger == \E c \in Callers : Serve(c)

SpecLedger == InitLedger /\ [][NextLedger]_vars

--------------------------------------------------------------------------
(* Category commissions of an agent: the routed handler function and the   *)
(* CategoryCommissionHandler method with the repository's BulkReplace      *)
(*                                                                         *)
(* categoryCommissions.rows is the table agent_category_commissions (the   *)
(* primary key and the cached name are left out), .requests the number of  *)
(* requests started. Requests are served one after the other; a step is    *)
(* one statement sent to the database, which may fail. categoryRequest is  *)
(* the request in progress or the last one ended, with the table as it was *)
(* when the request began.                                                 *)

(* commission_rate is decimal(5,2): 1000.00 and above cannot be stored *)
DecimalLimit == 100000

CategoryEntry(categoryID, rate) ==
    [CategoryID |-> categoryID, CommissionRate |-> rate, IsActive |-> TRUE]

CategoryEntries ==
    {CategoryEntry("C1", 500), CategoryEntry("C2", 0), CategoryEntry("C2", 750),
     CategoryEntry("C3", DecimalLimit)}

UpdateAgentCategoryCommissionsRequests ==
    UNION {[1..n -> CategoryEntries] : n \in 0..2}

CategoryRow(agentID, comm) ==
    [AgentID |-> agentID, CategoryID |-> comm.CategoryID,
     CommissionRate |-> comm.CommissionRate, IsActive |-> comm.IsActive]

(* the outcomes a Create of the row can have *)
CreateOutcomes(row) ==
    IF row.CommissionRate >= DecimalLimit THEN {FALSE} ELSE BOOLEAN

(* Where("agent_id = ?", agentID).Delete(...) *)
DeleteByAgent(rows, agentID) == {r \in rows : r.AgentID # agentID}

CategoryFree ==
    /\ categoryRequest.pc \in {"idle", "done"}
    /\ categoryCommissions.requests < MaxCategoryRequests

UpdateAgentCategoryCommissions_Delete ==
    /\ CategoryFree
    /\ \E agentID \in {1, 2}, req \in UpdateAgentCategoryCommissionsRequests,
          ok \in BOOLEAN :
         IF ~ok
         THEN /\ categoryRequest' =
                   [pc |-> "done", op |-> "UpdateAgentCategoryCommissions",
                    agentID |-> agentID, req |-> req,
                    before |-> categoryCommissions.rows, resp |-> 500]
              /\ categoryCommissions' = [categoryCommissions EXCEPT !.requests = @ + 1]
         ELSE /\ categoryRequest' =
                   [pc |-> "create", op |-> "UpdateAgentCategoryCommissions",
                    agentID |-> agentID, req |-> req,
                    before |-> categoryCommissions.rows, i |-> 1]
              /\ categoryCommissions' =
                   [rows |-> DeleteByAgent(categoryCommissions.rows, agentID),
                    requests |-> categoryCommissions.requests + 1]
    /\ UNCHANGED <<commissionVars, agentVars, payoutVars, storeVars, serviceVars,
                   valueVars, ledgerVars>>

(* one pass of the loop; a failed Create is logged and the loop goes on *)
UpdateAgentCategoryCommissions_Create ==
    /\ categoryRequest.pc = "create"
    /\ categoryRequest.i <= Len(categoryRequest.req)
    /\ LET comm == categoryRequest.req[categoryRequest.i]
           newComm == CategoryRow(categoryRequest.agentID, comm)
       IN  IF comm.CommissionRate > 0
           THEN \E ok \in CreateOutcomes(newComm) :
                  categoryCommissions' =
                    [categoryCommissions EXCEPT
                       !.rows = IF ok THEN @ \cup {newComm} ELSE @]
           ELSE UNCHANGED categoryCommissions
    /\ categoryRequest' = [categoryRequest EXCEPT !.i = @ + 1]
    /\ UNCHANGED <<commissionVars, agentVars, payoutVars, storeVars, serviceVars,
                   valueVars, ledgerVars>>

UpdateAgentCategoryCommissions_Respond ==
    /\ categoryRequest.pc = "create"
    /\ categoryRequest.i > Len(categoryRequest.req)
    /\ categoryRequest' =
         [pc |-> "done", op |-> "UpdateAgentCategoryCommissions",
          agentID |-> categoryRequest.agentID, req |-> categoryRequest.req,
          before |-> categoryRequest.before, resp |-> 200]
    /\ UNCHANGED <<categoryCommissions, commissionVars, agentVars, payoutVars,
                   storeVars, serviceVars, valueVars, ledgerVars>>

(* the entries of a request with a positive rate, as rows of the agent *)
PositiveRows(agentID, req) ==
    {CategoryRow(agentID, req[k]) : k \in {j \in 1..Len(req) : req[j].CommissionRate > 0}}

(* one transaction: the delete and every create, or nothing *)
BulkReplace(rows, agentID, newRows, ok) ==
    IF ok
    THEN [rows |-> DeleteByAgent(rows, agentID) \cup newRows, err |-> "nil"]
    ELSE [rows |-> rows, err |-> "error"]

HandlerUpdateAgentCategoryCommissions ==
    /\ CategoryFree
    /\ \E agentID \in {1, 2}, req \in UpdateAgentCategoryCommissionsRequests :
         LET newRows == PositiveRows(agentID, req)
             outcomes == IF \E r \in newRows : CreateOutcomes(r) = {FALSE}
                         THEN {FALSE} ELSE BOOLEAN
         IN  \E ok \in outcomes :
               LET r == BulkReplace(categoryCommissions.rows, agentID, newRows, ok)
               IN  /\ categoryCommissions' =
                        [rows |-> r.rows,
                         requests |-> categoryCommissions.requests + 1]
                   /\ categoryRequest' =
                        [pc |-> "done",
                         op |-> "CategoryCommissionHandler.UpdateAgentCategoryCommissions",
                         agentID |-> agentID, req |-> req,
                         before |-> categoryCommissions.rows,
                         resp |-> IF r.err = "nil" THEN 200 ELSE 500]
    /\ UNCHANGED <<commissionVars, agentVars, payoutVars, storeVars, serviceVars,
                   valueVars, ledgerVars>>

InitCategory ==
    /\ commission = Nil
    /\ commissionCall = NoCall
    /\ agent = Nil
    /\ agentCall = NoCall
    /\ payout = Nil
    /\ payoutCall = NoCall
    /\ EmptyStore
    /\ NoService

NextCategory ==
    \/ UpdateAgentCategoryCommissions_Delete
    \/ UpdateAgentCategoryCommissions_Create
    \/ UpdateAgentCategoryCommissions_Respond
    \/ HandlerUpdateAgentCategoryCommissions

SpecCategory == InitCategory /\ [][NextCategory]_vars

(* the requests through the handler method only *)
NextCategoryHandler == HandlerUpdateAgentCategoryCommissions

SpecCategoryHandler == InitCategory /\ [][NextCategoryHandler]_vars

--------------------------------------------------------------------------
(* Properties of the Commission entity *)

(* C1: Approve succeeds only from pending (giving approved), MarkAsPaid     *)
(* only from approved (giving paid), Cancel only from pending or approved   *)
(* (giving cancelled); every other call returns an error and leaves the     *)
(* status unchanged.                                                        *)
C1_CommissionTransitions ==
    commissionCall.op \in {"Approve", "MarkAsPaid", "Cancel"} =>
        LET op == commissionCall.op
            from == commissionCall.from
            ok == commissionCall.err = "nil"
            allowed ==
                \/ op = "Approve" /\ from = "pending"
                \/ op = "MarkAsPaid" /\ from = "approved"
                \/ op = "Cancel" /\ from \in {"pending", "approved"}
            target ==
                CASE op = "Approve" -> "approved"
                  [] op = "MarkAsPaid" -> "paid"
                  [] op = "Cancel" -> "cancelled"
        IN  /\ ok <=> allowed
            /\ ok => commission.status = target
            /\ ~ok => commission.status = from

C1_Witness ==
    /\ commissionCall.op = "Cancel"
    /\ commissionCall.from = "paid"
    /\ commissionCall.err # "nil"
    /\ commission.status = "paid"

(* C9: a commission's amount, rate and order total are fixed at creation:   *)
(* no Approve, MarkAsPaid or Cancel on it, and no SetCommissionRate,        *)
(* PromoteTier or SetTier on its agent, changes them.                       *)
C9_FrozenAtCreation ==
    [][commission # Nil =>
         /\ commission' # Nil
         /\ commission'.amount = commission.amount
         /\ commission'.rate = commission.rate
         /\ commission'.orderTotal = commission.orderTotal]_vars

C9_Witness ==
    /\ commission # Nil
    /\ commission.status = "paid"
    /\ commission.amount = 6000
    /\ commission.rate = 500
    /\ agent # Nil
    /\ agent.commissionRate = 750
    /\ agent.tier = "platinum"
    /\ Len(agent.events) > 1

--------------------------------------------------------------------------
(* Properties of the Payout aggregate *)

RECURSIVE SumOfAmounts(_)
SumOfAmounts(items) ==
    IF items = <<>> THEN 0 ELSE Head(items).amount + SumOfAmounts(Tail(items))

ItemCount(p) == Len(p.items)

(* C2: each of Process, Complete, Fail, Retry and Cancel succeeds only when *)
(* the move from the current status to its target is in the allowed table   *)
(* (pending to processing, pending to cancelled, processing to completed,   *)
(* processing to failed, failed to pending); every other call returns an    *)
(* error and leaves the status unchanged.                                   *)
C2_PayoutTransitions ==
    payoutCall.op \in {"Process", "Complete", "Fail", "Retry", "Cancel"} =>
        LET op == payoutCall.op
            from == payoutCall.from
            ok == payoutCall.err = "nil"
            target ==
                CASE op = "Process" -> "processing"
                  [] op = "Complete" -> "completed"
                  [] op = "Fail" -> "failed"
                  [] op = "Retry" -> "pending"
                  [] op = "Cancel" -> "cancelled"
            allowed ==
                <<from, target>> \in
                    {<<"pending", "processing">>, <<"pending", "cancelled">>,
                     <<"processing", "completed">>, <<"processing", "failed">>,
                     <<"failed", "pending">>}
        IN  /\ ok <=> allowed
            /\ ok => payout.status = target
            /\ ~ok => payout.status = from

(* C7 as stated: NewPayout with a non-empty item list returns a pending     *)
(* payout whose Amount() is the sum of the items' amounts and whose         *)
(* ItemCount() is the number of items; with an empty list it fails with     *)
(* ErrNoCommissions and returns no payout.                                  *)
C7_NewPayoutAnyParams ==
    payoutCall.op = "NewPayout" =>
        IF Len(payoutCall.params.Items) > 0
        THEN /\ payoutCall.err = "nil"
             /\ payout # Nil
             /\ payout.status = "pending"
             /\ payout.amount = SumOfAmounts(payoutCall.params.Items)
             /\ ItemCount(payout) = Len(payoutCall.params.Items)
        ELSE /\ payoutCall.err = "ErrNoCommissions"
             /\ payout = Nil

(* C7 amended: the same for every call whose agent ID is not 0 and whose    *)
(* period is not empty.                                                     *)
C7_NewPayout ==
    (/\ payoutCall.op = "NewPayout"
     /\ payoutCall.params.AgentID # 0
     /\ payoutCall.params.Period # "") =>
        IF Len(payoutCall.params.Items) > 0
        THEN /\ payoutCall.err = "nil"
             /\ payout # Nil
             /\ payout.status = "pending"
             /\ payout.amount = SumOfAmounts(payoutCall.params.Items)
             /\ ItemCount(payout) = Len(payoutCall.params.Items)
        ELSE /\ payoutCall.err = "ErrNoCommissions"
             /\ payout = Nil

C7_Witness ==
    /\ payoutCall.op = "NewPayout"
    /\ payoutCall.err = "nil"
    /\ payout # Nil
    /\ payout.items = <<NewPayoutItem(1, "ORD-1", 5000),
                        NewPayoutItem(2, "ORD-2", 7500),
                        NewPayoutItem(3, "ORD-3", 2500)>>
    /\ payout.amount = 15000
    /\ ItemCount(payout) = 3

(* C8: no sequence of Process, Complete, Fail, Retry and Cancel calls       *)
(* changes a payout's amount, item list, agent ID or period, so Amount() is *)
(* the sum of the items' amounts in every reachable state.                  *)
C8_PayoutFrame ==
    /\ [](payout # Nil => payout.amount = SumOfAmounts(payout.items))
    /\ [][payout # Nil =>
            /\ payout' # Nil
            /\ payout'.amount = payout.amount
            /\ payout'.items = payout.items
            /\ payout'.agentID = payout.agentID
            /\ payout'.period = payout.period]_vars

C8_Witness ==
    /\ payoutCall.op = "Cancel"
    /\ payoutCall.err = "nil"
    /\ payoutCall.from = "failed"
    /\ payout.amount = 12500
    /\ Len(payout.items) = 2

(* C10: paidAt is set if and only if the status is completed: unset at      *)
(* creation, set by a successful Complete (possible only from processing),  *)
(* and changed by no other call.                                            *)
C10_PaidAtIffCompleted ==
    /\ [](payout # Nil => (payout.paidAt # NilTime <=> payout.status = "completed"))
    /\ [][/\ (payout = Nil /\ payout' # Nil) => payout'.paidAt = NilTime
          /\ (payout # Nil /\ payout'.paidAt # payout.paidAt) =>
                /\ payout.paidAt = NilTime
                /\ payoutCall'.op = "Complete"
                /\ payoutCall'.err = "nil"
                /\ payoutCall'.from = "processing"
          /\ (payoutCall'.op = "Complete" /\ payoutCall'.err = "nil"
                 /\ payoutCall' # payoutCall) =>
                payout'.paidAt # NilTime]_vars

C10_Witness ==
    /\ payout # Nil
    /\ payoutCall.op = "Complete"
    /\ payoutCall.err = "nil"
    /\ payout.status = "completed"
    /\ payout.paidAt = <<2>>

--------------------------------------------------------------------------
(* Properties of the handlers over the store *)

Quiescent == \A w \in Workers : workers[w].pc \in {"idle", "done"}

RECURSIVE SumOfCommissions(_)
SumOfCommissions(ids) ==
    IF ids = {} THEN 0
    ELSE LET id == CHOOSE x \in ids : TRUE
         IN  commissions[id].Amount + SumOfCommissions(ids \ {id})

(* C3: for any interleaving of concurrent CreatePayout requests for the     *)
(* same agent, no commission ID is included in more than one payout.        *)
C3_NoDoubleInclusion ==
    \A i, j \in DOMAIN payouts :
        i # j =>
            Range(payouts[i].CommissionIDs) \cap Range(payouts[j].CommissionIDs) = {}

(* C4: after any sequence of commission creations and ApproveCommission     *)
(* requests, repeated ones for the same commission included, an agent's     *)
(* total_earned is the sum of the amounts of its commissions that were      *)
(* approved, each counted once.                                             *)
C4_TotalEarnedCountsOnce ==
    Quiescent =>
        \A a \in DOMAIN agents :
            agents[a].TotalEarned =
                SumOfCommissions({id \in DOMAIN commissions :
                                    /\ commissions[id].AgentID = a
                                    /\ commissions[id].Status \in {"approved", "paid"}})

(* C5: an ApproveCommission request for a commission whose stored status is *)
(* not pending is rejected and leaves the stored status unchanged.          *)
C5_ApproveOnlyPending ==
    \A w \in Workers :
        (/\ workers[w].pc = "done"
         /\ workers[w].op = "ApproveCommission"
         /\ workers[w].resp # 404
         /\ workers[w].read # "pending") =>
            /\ workers[w].resp # 200
            /\ commissions[workers[w].id].Status = workers[w].read

(* C6: a commission included in a payout stays approved while the payout is *)
(* pending or processing, and becomes paid only when the payout is          *)
(* completed.                                                               *)
C6_ApprovedUntilCompleted ==
    Quiescent =>
        \A p \in DOMAIN payouts :
            \A id \in Range(payouts[p].CommissionIDs) :
                /\ payouts[p].Status \in {"pending", "processing"} =>
                       commissions[id].Status = "approved"
                /\ commissions[id].Status = "paid" =>
                       payouts[p].Status = "completed"

--------------------------------------------------------------------------
(* C11: Retry succeeds exactly when the status is failed and then moves     *)
(* the payout to pending, from where Process is allowed again; from every   *)
(* other status it returns an error and leaves the payout as it was; and a  *)
(* failed payout becomes pending by no step other than a successful Retry.  *)
C11_RetryOnlyFromFailed ==
    /\ [](payoutCall.op = "Retry" =>
            /\ payoutCall.err = "nil" <=> payoutCall.from = "failed"
            /\ payoutCall.err = "nil" =>
                  /\ payout.status = "pending"
                  /\ PayoutCanTransitionTo(payout.status, PayoutProcessing)
            /\ payoutCall.err # "nil" => payout.status = payoutCall.from)
    /\ [][/\ (payoutCall'.op = "Retry" /\ payoutCall'.err = "nil") =>
                payout' = [payout EXCEPT !.status = "pending"]
          /\ (payoutCall'.op = "Retry" /\ payoutCall'.err # "nil") =>
                payout' = payout
          /\ (payout # Nil /\ payout.status = "failed"
                 /\ payout'.status = "pending") =>
                /\ payoutCall'.op = "Retry"
                /\ payoutCall'.err = "nil"
                /\ payoutCall'.from = "failed"]_vars

C11_Witness ==
    /\ payout # Nil
    /\ payoutCall.op = "Retry"
    /\ payoutCall.err = "nil"
    /\ payoutCall.from = "failed"
    /\ payout.status = "pending"

(* C12: whatever CreatePayout and MarkPayoutPaid requests have been served, *)
(* the status of every stored payout is one of the five payout statuses.    *)
C12_StoredPayoutStatus ==
    \A p \in DOMAIN payouts :
        payouts[p].Status \in {PayoutPending, PayoutProcessing, PayoutCompleted,
                               PayoutFailed, PayoutCancelled}

--------------------------------------------------------------------------
(* the types of the events a commission has collected, oldest first *)
EventTypes(c) == [i \in 1..Len(c.events) |-> c.events[i].type]

(* C13: a successful Approve appends exactly one approved event and a       *)
(* successful MarkAsPaid exactly one paid event, each carrying the          *)
(* commission's amount; a call that returns an error appends nothing; so    *)
(* the events collected after the created one are at most one approved and  *)
(* at most one paid, the approved one first.                                *)
C13_LifecycleEvents ==
    /\ [](commission # Nil =>
            /\ EventTypes(commission) \in
                  {<<"commission.created">>,
                   <<"commission.created", "commission.approved">>,
                   <<"commission.created", "commission.approved",
                     "commission.paid">>}
            /\ \A i \in 1..Len(commission.events) :
                  commission.events[i].amount = commission.amount)
    /\ [][(commission # Nil /\ commissionVars' # commissionVars) =>
            /\ (commissionCall'.op = "Approve" /\ commissionCall'.err = "nil") =>
                  /\ Len(commission'.events) = Len(commission.events) + 1
                  /\ SubSeq(commission'.events, 1, Len(commission.events))
                        = commission.events
                  /\ commission'.events[Len(commission'.events)] =
                        [type |-> "commission.approved",
                         commissionID |-> commission.id,
                         agentID |-> commission.agentID,
                         amount |-> commission.amount]
            /\ (commissionCall'.op = "MarkAsPaid" /\ commissionCall'.err = "nil") =>
                  /\ Len(commission'.events) = Len(commission.events) + 1
                  /\ SubSeq(commission'.events, 1, Len(commission.events))
                        = commission.events
                  /\ commission'.events[Len(commission'.events)] =
                        [type |-> "commission.paid",
                         commissionID |-> commission.id,
                         agentID |-> commission.agentID,
                         amount |-> commission.amount]
            /\ (commissionCall'.op \in {"Approve", "MarkAsPaid", "Cancel"}
                   /\ commissionCall'.err # "nil") =>
                  commission'.events = commission.events]_vars

C13_Witness ==
    /\ commission # Nil
    /\ commissionCall.op = "MarkAsPaid"
    /\ commissionCall.err = "nil"
    /\ commission.amount = 5000
    /\ EventTypes(commission) =
          <<"commission.created", "commission.approved", "commission.paid">>
    /\ commission.events[3].amount = 5000

--------------------------------------------------------------------------
(* C14: TotalEarned is 0 when the agent is created, and no operation on the *)
(* agent, RecordEarnings with any amount included, makes it smaller.        *)
C14_TotalEarnedNeverDecreases ==
    [][/\ (agent = Nil /\ agent' # Nil) => agent'.totalEarned = 0
       /\ (agent # Nil /\ agent' # Nil) =>
             agent'.totalEarned >= agent.totalEarned]_vars

--------------------------------------------------------------------------
(* Properties of CalculateCommission of the calculator service *)

Calculated ==
    /\ calculation.op = "CalculateCommission"
    /\ calculation.err = "nil"

(* the boost of the agent's team, 0 without a team or a positive boost *)
TeamBoost ==
    IF db.agent.TeamID # <<>> /\ db.teamBoost > 0 THEN db.teamBoost ELSE 0

(* C15: with volume tiers configured, the tier applied is the first one in  *)
(* ascending minAmount order whose range [minAmount, maxAmount) contains    *)
(* the subtotal, a max of 0 being no upper limit, and the base rate applies *)
(* when no tier contains it; with the tiers (0,1000,5%), (1000,5000,7.5%),  *)
(* (5000,unbounded,10%) a subtotal of 3500 gets tier 2 and amount 262.50.   *)
C15_TierForSubtotal ==
    (Calculated /\ db.agent.TierEnabled /\ db.tiers # {}) =>
        LET subtotal == calculation.req.OrderSubtotal
            result == calculation.result
            containing == {t \in db.tiers :
                              /\ t.MinAmount <= subtotal
                              /\ (t.MaxAmount = 0 \/ subtotal < t.MaxAmount)}
        IN  /\ IF containing = {}
               THEN /\ result.TierApplied = Nil
                    /\ result.CommissionRate = db.agent.BaseRate + TeamBoost
               ELSE result.TierApplied =
                       CHOOSE t \in containing :
                          \A u \in containing : t.MinAmount <= u.MinAmount
            /\ (db.tiers = ExampleTiers /\ subtotal = 350000) =>
                  /\ result.TierApplied = CommissionTier(100000, 500000, 750)
                  /\ result.Breakdown = <<>> => result.CommissionAmount = 26250

(* C16: the team boost is added to the applied rate whether a volume tier   *)
(* matched (tier rate + boost) or not (base rate + boost); base 5% with     *)
(* boost 2% and subtotal 1500 gives rate 7% and amount 105.00.              *)
C16_TeamBoostAdded ==
    Calculated =>
        LET result == calculation.result
        IN  /\ result.CommissionRate =
                  (IF result.TierApplied # Nil
                   THEN result.TierApplied.Rate
                   ELSE db.agent.BaseRate) + TeamBoost
            /\ (result.TierApplied = Nil /\ db.agent.BaseRate = 500
                   /\ TeamBoost = 200 /\ calculation.req.OrderSubtotal = 150000
                   /\ result.Breakdown = <<>>) =>
                  /\ result.CommissionRate = 700
                  /\ result.CommissionAmount = 10500

(* C17: the applied rate is the tier-or-base rate plus the team boost plus  *)
(* the bonus of the agent's loyalty tier (0, 1, 2, 3 percentage points for  *)
(* bronze, silver, gold, platinum).                                         *)
C17_LoyaltyBonusIncluded ==
    Calculated =>
        calculation.result.CommissionRate =
            (IF calculation.result.TierApplied # Nil
             THEN calculation.result.TierApplied.Rate
             ELSE db.agent.BaseRate)
            + TeamBoost + BonusPercentage(db.agent.Tier)

(* the active entries of a bonus table whose ID is among ids *)
ActiveEntries(table, field, ids) ==
    {i \in 1..Len(table) : table[i].IsActive /\ table[i][field] \in Range(ids)}

RECURSIVE SumOfBonuses(_, _, _)
SumOfBonuses(table, entries, subtotal) ==
    IF entries = {} THEN 0
    ELSE LET i == CHOOSE e \in entries : TRUE
         IN  (subtotal * table[i].BonusRate) \div 10000
               + SumOfBonuses(table, entries \ {i}, subtotal)

(* the breakdown lines of one type that carry the ID, rate and amount of    *)
(* entry i of a bonus table                                                 *)
LinesOf(breakdown, type, table, field, i, subtotal) ==
    {k \in 1..Len(breakdown) :
        /\ breakdown[k].ItemType = type
        /\ breakdown[k].ItemID = table[i][field]
        /\ breakdown[k].Rate = table[i].BonusRate
        /\ breakdown[k].Amount = (subtotal * table[i].BonusRate) \div 10000}

(* C18: the amount is subtotal x applied rate / 100 plus subtotal x         *)
(* bonusRate / 100 for every active product bonus entry of a product ID of  *)
(* the order and, independently, for every active category bonus entry of   *)
(* a category ID of the order; each such bonus has exactly one breakdown    *)
(* line with that amount, and there are no other lines.                     *)
C18_AmountAndBreakdown ==
    Calculated =>
        LET req == calculation.req
            result == calculation.result
            subtotal == req.OrderSubtotal
            products == ActiveEntries(db.productRates, "ProductID", req.ProductIDs)
            categories ==
                ActiveEntries(db.categoryRates, "CategoryID", req.CategoryIDs)
        IN  /\ result.CommissionAmount =
                  (subtotal * result.CommissionRate) \div 10000
                    + SumOfBonuses(db.productRates, products, subtotal)
                    + SumOfBonuses(db.categoryRates, categories, subtotal)
            /\ Len(result.Breakdown) = Cardinality(products) + Cardinality(categories)
            /\ \A i \in products :
                  Cardinality(LinesOf(result.Breakdown, "product", db.productRates,
                                      "ProductID", i, subtotal)) = 1
            /\ \A i \in categories :
                  Cardinality(LinesOf(result.Breakdown, "category",
                                      db.categoryRates, "CategoryID", i,
                                      subtotal)) = 1

C18_Witness ==
    /\ Calculated
    /\ calculation.req.OrderSubtotal = 350000
    /\ calculation.req.ProductIDs = <<"P1", "P2", "P1">>
    /\ calculation.req.CategoryIDs = <<"C1", "C2">>
    /\ db.productRates = <<ProductRate("P1", "Premium Batik", 300, TRUE),
                           ProductRate("P2", "Sarong", 200, FALSE)>>
    /\ calculation.result.CommissionRate = 750
    /\ Len(calculation.result.Breakdown) = 2
    /\ calculation.result.CommissionAmount = 26250 + 10500 + 10500

(* C19: for an agent that is not active CalculateCommission returns an      *)
(* error and no result, whatever the order.                                 *)
C19_InactiveAgentRefused ==
    (/\ calculation.op = "CalculateCommission"
     /\ db.agent # Nil
     /\ db.agent.ID = calculation.req.AgentID
     /\ ~db.agent.IsActive) =>
        /\ calculation.err # "nil"
        /\ calculation.result = Nil

C19_Witness ==
    /\ calculation.op = "CalculateCommission"
    /\ db.agent # Nil
    /\ db.agent.ID = calculation.req.AgentID
    /\ ~db.agent.IsActive
    /\ db.agent.TierEnabled
    /\ db.tiers = ExampleTiers
    /\ calculation.req.OrderSubtotal = 350000
    /\ calculation.req.ProductIDs = <<"P1">>
    /\ calculation.err # "nil"

--------------------------------------------------------------------------
(* C20: no commission record is created for an agent whose stored status is *)
(* not active: a CreateCommission request for such an agent adds no row.    *)
C20_NoCommissionForInactiveAgent ==
    [][Len(commissions') > Len(commissions) =>
          agents[commissions'[Len(commissions')].AgentID].Status = "active"]_vars

--------------------------------------------------------------------------
(* C21: NewCommission returns an error and no commission when the agent ID  *)
(* is 0, the order ID is empty, the order total is not positive or the rate *)
(* is outside [0,100]; otherwise it returns a pending commission carrying   *)
(* exactly one event, the created one.                                      *)
C21_NewCommissionValidation ==
    commissionCall.op = "NewCommission" =>
        LET p == commissionCall.params
        IN  /\ commissionCall.err # "nil" <=>
                  \/ p.AgentID = 0
                  \/ p.OrderID = ""
                  \/ p.OrderTotal <= 0
                  \/ p.Rate < 0
                  \/ p.Rate > 10000
            /\ commissionCall.err # "nil" => commission = Nil
            /\ commissionCall.err = "nil" =>
                  /\ commission # Nil
                  /\ commission.status = "pending"
                  /\ Len(commission.events) = 1
                  /\ commission.events[1].type = "commission.created"

C21_Witness ==
    /\ commissionCall.op = "NewCommission"
    /\ commissionCall.err = "nil"
    /\ commissionCall.params.Rate = 10000
    /\ commission # Nil
    /\ commission.status = "pending"
    /\ Len(commission.events) = 1

--------------------------------------------------------------------------
C30_DependsOnSubtotalOnly ==
    calculation.op = "CalculateCommission" =>
        /\ calculation.err = "nil" =>
             calculation.result.BasedOnAmount = calculation.req.OrderSubtotal
        /\ \A total \in {100000, 700000, 999900}, shipping \in {0, 1000},
              discount \in {0, 5000} :
             LET other == [calculation.req EXCEPT !.OrderTotal = total,
                                                  !.ShippingCost = shipping,
                                                  !.DiscountAmount = discount]
                 out == ServiceCalculateCommission(other)
             IN  /\ out.err = calculation.err
                 /\ out.err = "nil" =>
                      /\ out.result.CommissionRate = calculation.result.CommissionRate
                      /\ out.result.CommissionAmount =
                             calculation.result.CommissionAmount
                      /\ out.result.Breakdown = calculation.result.Breakdown
                      /\ out.result.TierApplied = calculation.result.TierApplied
                      /\ out.result.BasedOnAmount = calculation.result.BasedOnAmount

C30_Witness ==
    /\ calculation.op = "CalculateCommission"
    /\ calculation.err = "nil"
    /\ calculation.req.OrderTotal = 700000
    /\ calculation.req.OrderSubtotal = 150000
    /\ calculation.req.ProductIDs = <<"P1">>
    /\ calculation.result.BasedOnAmount = 150000
    /\ calculation.result.TierApplied # Nil
    /\ calculation.result.Breakdown # <<>>

--------------------------------------------------------------------------
(* Properties of the value objects and reports *)

(* C23: NewCommissionRate(r) succeeds, and Value() gives back r, for every  *)
(* r from 0 to 100, both ends included; for every r outside it fails with   *)
(* ErrInvalidCommissionRate.                                                *)
C23_NewCommissionRateRange ==
    valueCall.op = "NewCommissionRate" =>
        LET r == valueCall.in[1]
        IN  IF 0 <= r /\ r <= 10000
            THEN valueCall.err = "nil" /\ valueCall.out = r
            ELSE valueCall.err = "ErrInvalidCommissionRate"

C23_Witness ==
    /\ valueCall.op = "NewCommissionRate"
    /\ valueCall.in = <<10000>>
    /\ valueCall.err = "nil"
    /\ valueCall.out = 10000

(* C24: for valid rates a and b, Add gives the smaller of a + b and 100;    *)
(* for a valid rate a and a bonus fraction, AddPercentage gives the smaller *)
(* of a + bonus x 100 and 100 (a bonus fraction f is held as f x 10000, the *)
(* points f x 100 it stands for in hundredths of a point); neither result   *)
(* is above 100.                                                            *)
C24_AddCappedAtHundred ==
    /\ valueCall.op = "Add" =>
         LET sum == valueCall.in[1] + valueCall.in[2]
         IN  /\ valueCall.out = IF sum < 10000 THEN sum ELSE 10000
             /\ valueCall.out <= 10000
    /\ valueCall.op = "AddPercentage" =>
         LET sum == valueCall.in[1] + valueCall.in[2]
         IN  /\ valueCall.out = IF sum < 10000 THEN sum ELSE 10000
             /\ valueCall.out <= 10000

C24_Witness ==
    /\ valueCall.op = "Add"
    /\ valueCall.in = <<9900, 500>>
    /\ valueCall.out = 10000

(* C29: for every base rate from 0 to 100 and every tier, the effective     *)
(* commission rate of an agent is the base rate plus the tier's bonus in    *)
(* points (bronze 0, silver 1, gold 2, platinum 3), capped at 100.          *)
C29_EffectiveCommissionRate ==
    valueCall.op = "EffectiveCommissionRate" =>
        LET points == CASE valueCall.tier = "bronze" -> 0
                        [] valueCall.tier = "silver" -> 100
                        [] valueCall.tier = "gold" -> 200
                        [] valueCall.tier = "platinum" -> 300
            sum == valueCall.in[1] + points
        IN  /\ valueCall.in[1] \in 0..10000
            /\ valueCall.out = IF sum < 10000 THEN sum ELSE 10000

C29_Witness ==
    /\ valueCall.op = "EffectiveCommissionRate"
    /\ valueCall.in = <<9900>>
    /\ valueCall.tier = "platinum"
    /\ valueCall.out = 10000

(* C25: for every current date the monthly performance series has exactly   *)
(* 12 entries, the k-th being the calendar month 12 - k months before the   *)
(* current one (so they are consecutive, oldest first, and end at the       *)
(* current month), and a month without orders and commissions is present    *)
(* as an all-zero row.                                                      *)
C25_TwelveConsecutiveMonths ==
    valueCall.op = "GetAgentPerformance" =>
        /\ Len(valueCall.out) = 12
        /\ \A k \in 1..12 :
             LET row == valueCall.out[k]
                 idx == valueCall.now.year * 12 + (valueCall.now.month - 1) - (12 - k)
                 SameMonth(r) == /\ r.created_at.year = row.Month.year
                                 /\ r.created_at.month = row.Month.month
             IN  /\ row.Month = [year |-> idx \div 12, month |-> (idx % 12) + 1,
                                 day |-> 1]
                 /\ (/\ SelectSeq(valueCall.orders, SameMonth) = <<>>
                     /\ SelectSeq(valueCall.rows, SameMonth) = <<>>) =>
                        /\ row.TotalOrders = 0
                        /\ row.TotalSales = 0
                        /\ row.TotalCommission = 0
                        /\ row.CommissionPending = 0
                        /\ row.CommissionApproved = 0
                        /\ row.CommissionPaid = 0

(* C26: the dashboard's AverageOrderValue is 0 when TotalOrders is 0 and    *)
(* TotalSales / TotalOrders otherwise, and so are AverageOrderValue and     *)
(* AverageCommission of CalculateMonthlyPerformance; nothing is divided by  *)
(* an order count of 0.                                                     *)
C26_AverageGuarded ==
    /\ valueCall.op = "GetAgentDashboard" =>
         LET d == valueCall.out
         IN  /\ d.TotalOrders >= 0
             /\ d.AverageOrderValue =
                  IF d.TotalOrders = 0 THEN 0 ELSE d.TotalSales \div d.TotalOrders
    /\ valueCall.op = "CalculateMonthlyPerformance" =>
         LET perf == valueCall.out
         IN  /\ perf.TotalOrders >= 0
             /\ perf.AverageOrderValue =
                  IF perf.TotalOrders = 0 THEN 0
                  ELSE perf.TotalSales \div perf.TotalOrders
             /\ perf.AverageCommission =
                  IF perf.TotalOrders = 0 THEN 0
                  ELSE perf.TotalCommission \div perf.TotalOrders

C26_Witness ==
    /\ valueCall.op = "GetAgentDashboard"
    /\ valueCall.authUserID = "u-1"
    /\ valueCall.orders = <<>>
    /\ valueCall.out.TotalOrders = 0
    /\ valueCall.out.AverageOrderValue = 0

--------------------------------------------------------------------------
(* Properties of the commission records of the calculator service *)

(* C27: ApproveCommission and RejectCommission return an error whenever the *)
(* commission is not pending, and MarkCommissionPaid whenever it is not     *)
(* approved: none of them reports success for a transition that did not     *)
(* happen.                                                                  *)
C27_ErrorUnlessInSourceStatus ==
    /\ ledgerCall.op \in {"ApproveCommission", "RejectCommission"} =>
         (ledgerCall.before # "pending" => ledgerCall.err # "nil")
    /\ ledgerCall.op = "MarkCommissionPaid" =>
         (ledgerCall.before # "approved" => ledgerCall.err # "nil")

--------------------------------------------------------------------------
(* C31: when two ApproveCommission requests, served at the same time or one *)
(* after the other, have approved two distinct pending commissions of the   *)
(* same agent, the agent's total_earned holds at least the sum of both      *)
(* amounts: no credit is lost.                                              *)
C31_NoCreditLost ==
    (/\ \A w \in Workers :
           /\ workers[w].pc = "done"
           /\ workers[w].op = "ApproveCommission"
           /\ workers[w].resp = 200
           /\ workers[w].read = "pending"
     /\ workers["w1"].id # workers["w2"].id
     /\ commissions[workers["w1"].id].AgentID = commissions[workers["w2"].id].AgentID
     /\ commissions[workers["w1"].id].AgentID \in DOMAIN agents) =>
        agents[commissions[workers["w1"].id].AgentID].TotalEarned >=
            commissions[workers["w1"].id].Amount + commissions[workers["w2"].id].Amount

(* C32: under any interleaving of the service's ApproveCommission,          *)
(* RejectCommission and MarkCommissionPaid calls, the stored status of a    *)
(* commission changes only from pending to approved, from pending to        *)
(* rejected and from approved to paid; so paid and rejected are final and   *)
(* an approved commission never becomes rejected.                           *)
C32_ServiceStatusTransitions ==
    [][\A id \in 1..Len(ledger.commissions) :
          LET from == ledger.commissions[id].Status
              to == ledger'.commissions[id].Status
          IN  from # to =>
                <<from, to>> \in {<<"pending", "approved">>,
                                  <<"pending", "rejected">>,
                                  <<"approved", "paid">>}]_vars

C32_Witness ==
    /\ \E c \in Callers :
          /\ callers[c].pc = "approve_update"
          /\ callers[c].id = 1
          /\ callers[c].before = "pending"
    /\ StatusOf(1) = "paid"
    /\ ledgerCall.op = "MarkCommissionPaid"
    /\ ledgerCall.id = 1
    /\ ledgerCall.before = "approved"

(* C33: for both status types TransitionTo(s, t) returns t without error    *)
(* exactly when t is listed for s in the transition table, which is what    *)
(* CanTransitionTo reports, and otherwise returns s itself with an error;   *)
(* for all 4 x 4 commission pairs and all 5 x 5 payout pairs, s = t         *)
(* included, and for a source outside the enumeration.                      *)
C33_TransitionToFollowsTable ==
    LET commissionTable == {<<"pending", "approved">>, <<"pending", "cancelled">>,
                            <<"approved", "paid">>, <<"approved", "cancelled">>}
        payoutTable == {<<"pending", "processing">>, <<"pending", "cancelled">>,
                        <<"processing", "completed">>, <<"processing", "failed">>,
                        <<"failed", "pending">>}
        Follows(table) ==
            /\ valueCall.can <=> valueCall.in \in table
            /\ IF valueCall.in \in table
               THEN valueCall.err = "nil" /\ valueCall.out = valueCall.in[2]
               ELSE valueCall.err # "nil" /\ valueCall.out = valueCall.in[1]
    IN  /\ valueCall.op = "CommissionStatus.TransitionTo" => Follows(commissionTable)
        /\ valueCall.op = "PayoutStatus.TransitionTo" => Follows(payoutTable)

C33_Witness ==
    /\ valueCall.op = "PayoutStatus.TransitionTo"
    /\ valueCall.in = <<"completed", "completed">>
    /\ ~valueCall.can
    /\ valueCall.err = "ErrInvalidPayoutTransition"
    /\ valueCall.out = "completed"

(* C34: within one payout no commission ID appears in more than one item,   *)
(* so the payout's amount counts no commission twice.                       *)
C34_NoCommissionTwiceInPayout ==
    payout # Nil =>
        \A i, j \in 1..Len(payout.items) :
            i # j => payout.items[i].commissionID # payout.items[j].commissionID

--------------------------------------------------------------------------
(* C35: replacing an agent's category commissions is all-or-nothing: when   *)
(* an UpdateAgentCategoryCommissions request has ended, the agent's stored  *)
(* rows are exactly the request's entries with a positive rate if it        *)
(* reported success, and the rows stored before the request if it reported  *)
(* a failure; never an empty or partial set otherwise, and a request never  *)
(* reports success after a statement failed; the rows of other agents are   *)
(* unchanged.                                                               *)
C35_ReplaceAllOrNothing ==
    categoryRequest.pc = "done" =>
        LET Of(rows) == {r \in rows : r.AgentID = categoryRequest.agentID}
            Others(rows) == {r \in rows : r.AgentID # categoryRequest.agentID}
            now == categoryCommissions.rows
            wanted == {[AgentID |-> categoryRequest.agentID,
                        CategoryID |-> categoryRequest.req[k].CategoryID,
                        CommissionRate |-> categoryRequest.req[k].CommissionRate,
                        IsActive |-> categoryRequest.req[k].IsActive] :
                         k \in {j \in 1..Len(categoryRequest.req) :
                                  categoryRequest.req[j].CommissionRate > 0}}
        IN  /\ Others(now) = Others(categoryRequest.before)
            /\ IF categoryRequest.resp = 200
               THEN Of(now) = wanted
               ELSE Of(now) = Of(categoryRequest.before)

--------------------------------------------------------------------------
(* C36: after any sequence of CreateAgent and UpdateAgent requests every    *)
(* stored agent's commission rate lies in [0,100].                          *)
C36_StoredRateInRange ==
    \A a \in DOMAIN agents :
        agents[a].CommissionRate >= 0 /\ agents[a].CommissionRate <= 10000

--------------------------------------------------------------------------
(* C37: Events() returns the events emitted since the previous Events()     *)
(* call, in emission order, and empties the buffer, changing nothing else;  *)
(* every other method only appends to the buffer; a second Events() call    *)
(* right after one returns an empty list. So over any sequence of           *)
(* transitions and Events() calls every emitted event is returned exactly   *)
(* once.                                                                    *)
C37_EventsDrained ==
    [][commission # Nil =>
         IF commissionCall'.op = "Events"
         THEN /\ commissionCall'.out = commission.events
              /\ commission' = [commission EXCEPT !.events = <<>>]
              /\ commissionCall.op = "Events" => commissionCall'.out = <<>>
         ELSE /\ Len(commission'.events) >= Len(commission.events)
              /\ SubSeq(commission'.events, 1, Len(commission.events)) =
                     commission.events]_vars

C37_Witness ==
    /\ commission # Nil
    /\ commissionCall.op = "Events"
    /\ Len(commissionCall.out) = 1
    /\ commissionCall.out[1].type = "commission.approved"
    /\ commission.status = "approved"
    /\ commission.events = <<>>

(* C38: for every base rate in [0,100], tier and positive order total, the  *)
(* EffectiveRate reported by Calculator.Calculate equals the value of       *)
(* Calculator.EffectiveRate(baseRate, tier), so it never exceeds 100 and    *)
(* TotalAmount never exceeds the order total.                               *)
C38_CalculateAgreesWithEffectiveRate ==
    (valueCall.op = "Calculator.Calculate" /\ valueCall.params.OrderTotal > 0) =>
        /\ valueCall.out.EffectiveRate = valueCall.effective
        /\ valueCall.out.EffectiveRate <= 10000
        /\ valueCall.out.TotalAmount <= valueCall.params.OrderTotal

(* C39: every CommissionRate obtained from NewCommissionRate,               *)
(* DefaultCommissionRate, Add or AddPercentage, with any bonus argument,    *)
(* a negative one included, has a value in [0,100].                         *)
C39_EveryRateInRange ==
    /\ DefaultCommissionRate >= 0 /\ DefaultCommissionRate <= 10000
    /\ (/\ valueCall.op \in {"NewCommissionRate", "Add", "AddPercentage"}
        /\ valueCall.err = "nil") =>
           valueCall.out >= 0 /\ valueCall.out <= 10000

--------------------------------------------------------------------------
(* C40: Activate succeeds only when the status is inactive or pending, and  *)
(* then makes the agent active with one status-changed event; for an active *)
(* or suspended agent it returns an error, leaves the agent unchanged and   *)
(* emits no event. A suspended agent leaves that status only by Deactivate, *)
(* so it becomes active again only after an intervening Deactivate. The     *)
(* agent can earn commission exactly when its status is active.             *)
C40_ActivateOnlyFromInactiveOrPending ==
    /\ [](agent # Nil =>
            (CanEarnCommission(agent.status) <=> agent.status = "active"))
    /\ [][(agent # Nil /\ agentCall'.op = "Activate" /\ agentVars' # agentVars) =>
            IF agent.status \in {"inactive", "pending"}
            THEN /\ agentCall'.err = "nil"
                 /\ agent' = [agent EXCEPT
                                !.status = "active",
                                !.events = Append(@, StatusChangedEvent(agent,
                                                        "active"))]
            ELSE /\ agentCall'.err # "nil"
                 /\ agent' = agent]_vars
    /\ [][(agent # Nil /\ agent.status = "suspended"
             /\ agent'.status # "suspended") =>
            /\ agent'.status = "inactive"
            /\ agentCall'.op = "Deactivate"]_vars

C40_Witness ==
    /\ agent # Nil
    /\ agentCall.op = "Activate"
    /\ agentCall.err = "ErrAgentInactive"
    /\ agent.status = "suspended"
    /\ ~CanEarnCommission(agent.status)
    /\ Len(agent.events) = 2

====
